---------------------------- MODULE Spec2Model ----------------------------
(***************************************************************************)
(* A model of the OpenWorld server: the chunk generator                    *)
(* (src/src/game/ChunkGenerator.ts), the GameWorld class                   *)
(* (src/unnamed/part_001, i.e. server/src/game/GameWorld.ts) and the       *)
(* socket handlers of src/src/index.ts (world registry, join, move,        *)
(* disconnect and the 60 s clean-up timer).                                *)
(*                                                                         *)
(* Numbers.  JavaScript numbers are IEEE doubles.  Every quantity the      *)
(* generator computes is either an integer below 2^53 or the quotient      *)
(* state/233280 of such an integer, so the model keeps the integer         *)
(* numerator `state` of every random() value and computes                  *)
(* Math.floor(random() * n) as Floor(state * n, 233280).  TLC's integers   *)
(* are 32 bit wide, so the product state * 9301 is taken modulo 233280 in  *)
(* two steps (MulMod9301).  Positions are integers: Math.floor(p / 500)    *)
(* of a real p equals that of the integer part of p.                       *)
(*                                                                         *)
(* Strings.  A chunk key `${x},${y}` is a sequence of one-character        *)
(* strings, so that template formatting, split(',') and parseInt are       *)
(* modelled by what they do.                                               *)
(***************************************************************************)
EXTENDS Integers, Sequences, FiniteSets, TLC

(***************************************************************************)
(* Program constants                                                       *)
(***************************************************************************)
\* GameWorld.ts: private worldWidth / worldHeight / chunkSize
worldWidth == 5000
worldHeight == 5000
chunkSize == 500
\* getChunksForPosition(position, distance = 2)
DefaultDistance == 2
\* ChunkGenerator.ts: initial values of the identifier counters
InitialTreeId == 1000000
InitialBushId == 2000000
InitialFlowerId == 3000000
\* createSeededRandom: state = (state * 9301 + 49297) % 233280
LcgMultiplier == 9301
LcgIncrement == 49297
LcgModulus == 233280
\* checkCollisionWithExistingElements: const buffer = 10
CollisionBuffer == 10
\* element.size || 10
DefaultElementSize == 10
\* while (!validPosition && attempts < 50)
MaxAttempts == 50
\* const chunkSeed = chunkX * 10000 + chunkY
SeedFactor == 10000
\* index.ts: setTimeout(..., 60000)
GracePeriod == 60000
\* index.ts: const MAX_MOVEMENT_PER_UPDATE = 20
MAX_MOVEMENT_PER_UPDATE == 20

(***************************************************************************)
(* Arithmetic helpers                                                      *)
(***************************************************************************)
Abs(n) == IF n < 0 THEN -n ELSE n

\* F(v) with v evaluated once, before F is entered, as JavaScript evaluates
\* the right-hand side of `const x = ...` once
Bind(v, F(_)) == CHOOSE r \in {F(x) : x \in {v}} : TRUE

\* Math.floor(a / b) for b > 0
Floor(a, b) == IF a >= 0 THEN a \div b ELSE -((-a + b - 1) \div b)

\* (a * 9301) mod 233280 for a >= 0, without leaving 32 bits
MulMod9301(a) ==
    LET r == a % LcgModulus
    IN  ((((r * 4650) % LcgModulus) * 2) + r) % LcgModulus

(***************************************************************************)
(* ChunkGenerator.createSeededRandom.  The closure's only state is         *)
(* `state`; random(state) is the value of `state` after one call, and the  *)
(* call returns state / 233280.  JavaScript's % takes the sign of the      *)
(* dividend, so a negative state yields a result in (-233280, 0].          *)
(***************************************************************************)
createSeededRandom(seed) == seed

random(state) ==
    IF state >= 0
    THEN (MulMod9301(state) + LcgIncrement) % LcgModulus
    ELSE IF -state <= 5
         THEN LcgIncrement - (-state) * LcgMultiplier
         ELSE -((MulMod9301(-state) - LcgIncrement) % LcgModulus)

\* Math.floor(random() * n), for the state the call left
FloorRandomTimes(state, n) == Floor(state * n, LcgModulus)

(***************************************************************************)
(* Math.sin / Math.cos.  The entity counts are                             *)
(*   5 + Math.floor((Math.sin(seed) + 1) * 5)                              *)
(*   8 + Math.floor((Math.cos(seed) + 1) * 7)                              *)
(*   15 + Math.floor((Math.sin(seed * 0.1) + 1) * 10)                      *)
(* The three floors are tabulated (in IEEE double arithmetic) for the      *)
(* seeds cx * 10000 + cy of the chunk coordinates -1 .. 10 x -1 .. 10.     *)
(***************************************************************************)
SinTimes5Table ==
    {
      <<-10001, 9>>, <<-10000, 6>>, <<-9999, 1>>, <<-9998, 0>>, <<-9997, 2>>, <<-9996, 7>>,
      <<-9995, 9>>, <<-9994, 7>>, <<-9993, 3>>, <<-9992, 0>>, <<-9991, 1>>, <<-9990, 6>>,
      <<-1, 0>>, <<0, 5>>, <<1, 9>>, <<2, 9>>, <<3, 5>>, <<4, 1>>,
      <<5, 0>>, <<6, 3>>, <<7, 8>>, <<8, 9>>, <<9, 7>>, <<10, 2>>,
      <<9999, 8>>, <<10000, 3>>, <<10001, 0>>, <<10002, 1>>, <<10003, 5>>, <<10004, 9>>,
      <<10005, 9>>, <<10006, 4>>, <<10007, 0>>, <<10008, 0>>, <<10009, 4>>, <<10010, 8>>,
      <<19999, 3>>, <<20000, 7>>, <<20001, 9>>, <<20002, 7>>, <<20003, 2>>, <<20004, 0>>,
      <<20005, 1>>, <<20006, 6>>, <<20007, 9>>, <<20008, 8>>, <<20009, 4>>, <<20010, 0>>,
      <<29999, 5>>, <<30000, 0>>, <<30001, 0>>, <<30002, 3>>, <<30003, 8>>, <<30004, 9>>,
      <<30005, 6>>, <<30006, 1>>, <<30007, 0>>, <<30008, 2>>, <<30009, 7>>, <<30010, 9>>,
      <<39999, 6>>, <<40000, 9>>, <<40001, 8>>, <<40002, 4>>, <<40003, 0>>, <<40004, 0>>,
      <<40005, 4>>, <<40006, 9>>, <<40007, 9>>, <<40008, 5>>, <<40009, 1>>, <<40010, 0>>,
      <<49999, 2>>, <<50000, 0>>, <<50001, 2>>, <<50002, 6>>, <<50003, 9>>, <<50004, 8>>,
      <<50005, 3>>, <<50006, 0>>, <<50007, 1>>, <<50008, 5>>, <<50009, 9>>, <<50010, 9>>,
      <<59999, 8>>, <<60000, 9>>, <<60001, 6>>, <<60002, 1>>, <<60003, 0>>, <<60004, 2>>,
      <<60005, 7>>, <<60006, 9>>, <<60007, 7>>, <<60008, 2>>, <<60009, 0>>, <<60010, 1>>,
      <<69999, 0>>, <<70000, 0>>, <<70001, 5>>, <<70002, 9>>, <<70003, 9>>, <<70004, 5>>,
      <<70005, 1>>, <<70006, 0>>, <<70007, 3>>, <<70008, 8>>, <<70009, 9>>, <<70010, 6>>,
      <<79999, 9>>, <<80000, 8>>, <<80001, 3>>, <<80002, 0>>, <<80003, 1>>, <<80004, 6>>,
      <<80005, 9>>, <<80006, 9>>, <<80007, 4>>, <<80008, 0>>, <<80009, 0>>, <<80010, 4>>,
      <<89999, 0>>, <<90000, 3>>, <<90001, 8>>, <<90002, 9>>, <<90003, 7>>, <<90004, 2>>,
      <<90005, 0>>, <<90006, 2>>, <<90007, 6>>, <<90008, 9>>, <<90009, 8>>, <<90010, 3>>,
      <<99999, 9>>, <<100000, 5>>, <<100001, 0>>, <<100002, 0>>, <<100003, 4>>, <<100004, 8>>,
      <<100005, 9>>, <<100006, 6>>, <<100007, 1>>, <<100008, 0>>, <<100009, 2>>, <<100010, 7>> }
CosTimes7Table ==
    {
      <<-10001, 5>>, <<-10000, 0>>, <<-9999, 1>>, <<-9998, 7>>, <<-9997, 13>>, <<-9996, 12>>,
      <<-9995, 7>>, <<-9994, 1>>, <<-9993, 0>>, <<-9992, 5>>, <<-9991, 12>>, <<-9990, 13>>,
      <<-1, 10>>, <<0, 14>>, <<1, 10>>, <<2, 4>>, <<3, 0>>, <<4, 2>>,
      <<5, 8>>, <<6, 13>>, <<7, 12>>, <<8, 5>>, <<9, 0>>, <<10, 1>>,
      <<9999, 1>>, <<10000, 0>>, <<10001, 5>>, <<10002, 11>>, <<10003, 13>>, <<10004, 9>>,
      <<10005, 3>>, <<10006, 0>>, <<10007, 3>>, <<10008, 10>>, <<10009, 13>>, <<10010, 11>>,
      <<19999, 13>>, <<20000, 12>>, <<20001, 6>>, <<20002, 0>>, <<20003, 0>>, <<20004, 6>>,
      <<20005, 12>>, <<20006, 13>>, <<20007, 8>>, <<20008, 2>>, <<20009, 0>>, <<20010, 4>>,
      <<29999, 0>>, <<30000, 2>>, <<30001, 9>>, <<30002, 13>>, <<30003, 11>>, <<30004, 5>>,
      <<30005, 0>>, <<30006, 1>>, <<30007, 7>>, <<30008, 13>>, <<30009, 13>>, <<30010, 7>>,
      <<39999, 13>>, <<40000, 9>>, <<40001, 2>>, <<40002, 0>>, <<40003, 3>>, <<40004, 10>>,
      <<40005, 13>>, <<40006, 11>>, <<40007, 4>>, <<40008, 0>>, <<40009, 2>>, <<40010, 8>>,
      <<49999, 1>>, <<50000, 6>>, <<50001, 12>>, <<50002, 13>>, <<50003, 8>>, <<50004, 1>>,
      <<50005, 0>>, <<50006, 4>>, <<50007, 11>>, <<50008, 13>>, <<50009, 9>>, <<50010, 3>>,
      <<59999, 11>>, <<60000, 4>>, <<60001, 0>>, <<60002, 1>>, <<60003, 8>>, <<60004, 13>>,
      <<60005, 12>>, <<60006, 6>>, <<60007, 1>>, <<60008, 0>>, <<60009, 6>>, <<60010, 12>>,
      <<69999, 4>>, <<70000, 10>>, <<70001, 13>>, <<70002, 10>>, <<70003, 3>>, <<70004, 0>>,
      <<70005, 2>>, <<70006, 9>>, <<70007, 13>>, <<70008, 12>>, <<70009, 5>>, <<70010, 0>>,
      <<79999, 7>>, <<80000, 1>>, <<80001, 0>>, <<80002, 5>>, <<80003, 11>>, <<80004, 13>>,
      <<80005, 9>>, <<80006, 2>>, <<80007, 0>>, <<80008, 3>>, <<80009, 10>>, <<80010, 13>>,
      <<89999, 8>>, <<90000, 13>>, <<90001, 12>>, <<90002, 6>>, <<90003, 0>>, <<90004, 0>>,
      <<90005, 6>>, <<90006, 12>>, <<90007, 13>>, <<90008, 8>>, <<90009, 1>>, <<90010, 0>>,
      <<99999, 3>>, <<100000, 0>>, <<100001, 3>>, <<100002, 9>>, <<100003, 13>>, <<100004, 11>>,
      <<100005, 5>>, <<100006, 0>>, <<100007, 1>>, <<100008, 7>>, <<100009, 13>>, <<100010, 13>> }
SinTenthTimes10Table ==
    {
      <<-10001, 1>>, <<-10000, 1>>, <<-9999, 2>>, <<-9998, 3>>, <<-9997, 3>>, <<-9996, 4>>,
      <<-9995, 5>>, <<-9994, 6>>, <<-9993, 7>>, <<-9992, 8>>, <<-9991, 9>>, <<-9990, 10>>,
      <<-1, 9>>, <<0, 10>>, <<1, 10>>, <<2, 11>>, <<3, 12>>, <<4, 13>>,
      <<5, 14>>, <<6, 15>>, <<7, 16>>, <<8, 17>>, <<9, 17>>, <<10, 18>>,
      <<9999, 17>>, <<10000, 18>>, <<10001, 18>>, <<10002, 19>>, <<10003, 19>>, <<10004, 19>>,
      <<10005, 19>>, <<10006, 19>>, <<10007, 19>>, <<10008, 19>>, <<10009, 19>>, <<10010, 19>>,
      <<19999, 19>>, <<20000, 19>>, <<20001, 18>>, <<20002, 18>>, <<20003, 17>>, <<20004, 17>>,
      <<20005, 16>>, <<20006, 15>>, <<20007, 14>>, <<20008, 13>>, <<20009, 12>>, <<20010, 11>>,
      <<29999, 13>>, <<30000, 12>>, <<30001, 11>>, <<30002, 10>>, <<30003, 9>>, <<30004, 8>>,
      <<30005, 7>>, <<30006, 6>>, <<30007, 5>>, <<30008, 4>>, <<30009, 3>>, <<30010, 2>>,
      <<39999, 3>>, <<40000, 3>>, <<40001, 2>>, <<40002, 1>>, <<40003, 1>>, <<40004, 0>>,
      <<40005, 0>>, <<40006, 0>>, <<40007, 0>>, <<40008, 0>>, <<40009, 0>>, <<40010, 0>>,
      <<49999, 0>>, <<50000, 0>>, <<50001, 0>>, <<50002, 0>>, <<50003, 1>>, <<50004, 1>>,
      <<50005, 2>>, <<50006, 2>>, <<50007, 3>>, <<50008, 4>>, <<50009, 5>>, <<50010, 5>>,
      <<59999, 4>>, <<60000, 5>>, <<60001, 6>>, <<60002, 7>>, <<60003, 8>>, <<60004, 9>>,
      <<60005, 10>>, <<60006, 11>>, <<60007, 12>>, <<60008, 13>>, <<60009, 14>>, <<60010, 15>>,
      <<69999, 14>>, <<70000, 15>>, <<70001, 15>>, <<70002, 16>>, <<70003, 17>>, <<70004, 18>>,
      <<70005, 18>>, <<70006, 19>>, <<70007, 19>>, <<70008, 19>>, <<70009, 19>>, <<70010, 19>>,
      <<79999, 19>>, <<80000, 19>>, <<80001, 19>>, <<80002, 19>>, <<80003, 19>>, <<80004, 19>>,
      <<80005, 19>>, <<80006, 18>>, <<80007, 18>>, <<80008, 17>>, <<80009, 16>>, <<80010, 15>>,
      <<89999, 16>>, <<90000, 16>>, <<90001, 15>>, <<90002, 14>>, <<90003, 13>>, <<90004, 12>>,
      <<90005, 11>>, <<90006, 10>>, <<90007, 9>>, <<90008, 8>>, <<90009, 7>>, <<90010, 6>>,
      <<99999, 7>>, <<100000, 6>>, <<100001, 6>>, <<100002, 5>>, <<100003, 4>>, <<100004, 3>>,
      <<100005, 2>>, <<100006, 2>>, <<100007, 1>>, <<100008, 1>>, <<100009, 0>>, <<100010, 0>> }

Lookup(table, seed) == (CHOOSE p \in table : p[1] = seed)[2]

(***************************************************************************)
(* ChunkGenerator.checkCollisionWithExistingElements.  The code compares   *)
(* sqrt(dx^2 + dy^2) < size/2 + elementSize/2 + buffer on centres          *)
(* (x + size/2, y + size/2); both sides are doubled and squared here,      *)
(* which keeps them integers and keeps the order (both are >= 0).          *)
(***************************************************************************)
ElementSize(element) ==
    IF element.size = 0 THEN DefaultElementSize ELSE element.size

\* Mutant of checkCollisionWithExistingElements: no buffer between elements.
checkCollisionWithExistingElements_NoBuffer(x, y, size, existingElements) ==
    \E i \in 1..Len(existingElements) :
        LET element == existingElements[i]
            elementSize == ElementSize(element)
            dx2 == (2 * x + size) - (2 * element.x + elementSize)
            dy2 == (2 * y + size) - (2 * element.y + elementSize)
            bound2 == size + elementSize
        IN  dx2 * dx2 + dy2 * dy2 < bound2 * bound2

checkCollisionWithExistingElements(x, y, size, existingElements) ==
    \E i \in 1..Len(existingElements) :
        LET element == existingElements[i]
            elementSize == ElementSize(element)
            dx2 == (2 * x + size) - (2 * element.x + elementSize)
            dy2 == (2 * y + size) - (2 * element.y + elementSize)
            bound2 == size + elementSize + 2 * CollisionBuffer
        IN  dx2 * dx2 + dy2 * dy2 < bound2 * bound2

(***************************************************************************)
(* The placement loop of generateTrees (lines 79-89) and generateBushes    *)
(* (lines 126-138): draw x and y until the candidate collides with         *)
(* nothing or 50 attempts were made.  `rnd` is the state of the seeded     *)
(* sequence; the result carries the state the loop leaves.                 *)
(***************************************************************************)
\* one pass of the while loop
findStep(s) ==
    IF s.validPosition \/ s.attempts >= MaxAttempts
    THEN s
    ELSE LET r1 == random(s.rnd)
             r2 == random(r1)
             x == s.chunkX * chunkSize
                    + FloorRandomTimes(r1, chunkSize - s.size)
             y == s.chunkY * chunkSize
                    + FloorRandomTimes(r2, chunkSize - s.size)
         IN  [s EXCEPT !.attempts = @ + 1, !.rnd = r2, !.x = x, !.y = y,
                       !.validPosition =
                           ~checkCollisionWithExistingElements(
                                x, y, s.size, s.existingElements)]

\* up to n passes of the while loop, the first half of them and then the
\* rest (which keeps the nesting of the evaluation shallow)
RECURSIVE findLoop(_, _)
findLoop(s, n) ==
    IF n = 0 \/ s.validPosition
    THEN s
    ELSE IF n = 1
    THEN findStep(s)
    ELSE Bind(findLoop(s, n \div 2), LAMBDA mid : findLoop(mid, n - n \div 2))

\* Mutant of the placement loop: it gives up after 10 attempts.
findPosition_TenAttempts(rnd, attempts, chunkX, chunkY, size, existingElements) ==
    Bind([validPosition |-> FALSE, x |-> 0, y |-> 0, rnd |-> rnd,
          attempts |-> attempts, chunkX |-> chunkX, chunkY |-> chunkY,
          size |-> size, existingElements |-> existingElements],
         LAMBDA s : findLoop(s, 10 - attempts))

findPosition(rnd, attempts, chunkX, chunkY, size, existingElements) ==
    Bind([validPosition |-> FALSE, x |-> 0, y |-> 0, rnd |-> rnd,
          attempts |-> attempts, chunkX |-> chunkX, chunkY |-> chunkY,
          size |-> size, existingElements |-> existingElements],
         LAMBDA s : findLoop(s, MaxAttempts - attempts))

\* `hsl(${a + random() * b}, ${c + random() * d}%, ${e + random() * f}%)`:
\* the colour is the triple of random() values, kept by their numerators.
hslColor(rnd) ==
    LET r1 == random(rnd)
        r2 == random(r1)
        r3 == random(r2)
    IN  [color |-> <<r1, r2, r3>>, rnd |-> r3]

(***************************************************************************)
(* The entity identifiers.  Neither loop reads the counters: `id:           *)
(* this.nextTreeId++` only stamps the entity being pushed.  The loops are  *)
(* therefore written over the entities without their id (placeTrees,       *)
(* placeBushes, placeFlowers), and generateTrees / generateBushes /        *)
(* generateFlowers stamp the k-th entity pushed with counter + (k - 1) and *)
(* advance the counter by the number of entities pushed.                   *)
(*                                                                         *)
(* Each placed entity also records `attempts`, the number of candidate     *)
(* positions drawn for it (not a field of the program's objects; it is     *)
(* dropped when the entity is stamped), and the loops count the entities   *)
(* they omitted; the tree and bush loops also record, in `gaveUp`, the     *)
(* number of candidate positions drawn for each entity they omitted.       *)
(***************************************************************************)
\* one pass of the for loop of generateTrees: the loop's variables after it
treeStep(s) ==
    LET rs == random(s.rnd)
        rv == random(rs)
        size == 80 + FloorRandomTimes(rs, 40)
        variant == FloorRandomTimes(rv, 3)
    IN  Bind(findPosition(rv, 0, s.chunkX, s.chunkY, size, s.placed),
             LAMBDA p :
                 IF p.validPosition
                 THEN LET c == hslColor(p.rnd)
                      IN  [s EXCEPT
                              !.i = @ + 1, !.rnd = c.rnd,
                              !.placed =
                                  Append(@, [x |-> p.x, y |-> p.y,
                                             size |-> size, color |-> c.color,
                                             variant |-> variant,
                                             attempts |-> p.attempts])]
                 ELSE [s EXCEPT !.i = @ + 1, !.rnd = p.rnd,
                                !.omitted = @ + 1,
                                !.gaveUp = Append(@, p.attempts)])

\* n passes of the for loop, the first half of them and then the rest
RECURSIVE treeLoop(_, _)
treeLoop(s, n) ==
    IF n <= 0
    THEN s
    ELSE IF n = 1
    THEN treeStep(s)
    ELSE Bind(treeLoop(s, n \div 2), LAMBDA mid : treeLoop(mid, n - n \div 2))

\* ChunkGenerator.generateTrees, lines 68-101, identifiers aside
placeTrees(chunkX, chunkY, seed) ==
    Bind([i |-> 0, count |-> 5 + Lookup(SinTimes5Table, seed),
          chunkX |-> chunkX, chunkY |-> chunkY,
          rnd |-> createSeededRandom(seed), placed |-> <<>>, omitted |-> 0,
          gaveUp |-> <<>>],
         LAMBDA s :
    Bind(treeLoop(s, s.count),
         LAMBDA end : [placed |-> end.placed, omitted |-> end.omitted,
                       gaveUp |-> end.gaveUp]))

\* one pass of the for loop of generateBushes
bushStep(s) ==
    LET rs == random(s.rnd)
        rv == random(rs)
        size == 40 + FloorRandomTimes(rs, 20)
        variant == FloorRandomTimes(rv, 3)
    IN  Bind(findPosition(rv, 0, s.chunkX, s.chunkY, size, s.existingElements \o s.placed),
             LAMBDA p :
                 IF p.validPosition
                 THEN LET c == hslColor(p.rnd)
                      IN  [s EXCEPT
                              !.i = @ + 1, !.rnd = c.rnd,
                              !.placed =
                                  Append(@, [x |-> p.x, y |-> p.y,
                                             size |-> size, color |-> c.color,
                                             variant |-> variant,
                                             attempts |-> p.attempts])]
                 ELSE [s EXCEPT !.i = @ + 1, !.rnd = p.rnd,
                                !.omitted = @ + 1,
                                !.gaveUp = Append(@, p.attempts)])

\* n passes of the for loop, the first half of them and then the rest
RECURSIVE bushLoop(_, _)
bushLoop(s, n) ==
    IF n <= 0
    THEN s
    ELSE IF n = 1
    THEN bushStep(s)
    ELSE Bind(bushLoop(s, n \div 2), LAMBDA mid : bushLoop(mid, n - n \div 2))

\* ChunkGenerator.generateBushes, lines 115-150, identifiers aside
placeBushes(chunkX, chunkY, seed, existingElements) ==
    Bind([i |-> 0, count |-> 8 + Lookup(CosTimes7Table, seed),
          chunkX |-> chunkX, chunkY |-> chunkY,
          rnd |-> createSeededRandom(seed + 1),
          existingElements |-> existingElements, placed |-> <<>>,
          omitted |-> 0, gaveUp |-> <<>>],
         LAMBDA s :
    Bind(bushLoop(s, s.count),
         LAMBDA end : [placed |-> end.placed, omitted |-> end.omitted,
                       gaveUp |-> end.gaveUp]))

flowerColors ==
    << "#FF5733", "#DAF7A6", "#FFC300", "#C70039", "#900C3F", "#581845",
       "#FFFFFF", "#FFC0CB", "#3D85C6" >>

\* Mutant of the flower check: no point is blocked.
flowerBlocked_Never(x, y, existingElements) ==
    FALSE

\* generateFlowers, lines 189-202: the point (x, y) lies closer than
\* elementSize/2 to the centre of some tree or bush (doubled and squared)
flowerBlocked(x, y, existingElements) ==
    \E i \in 1..Len(existingElements) :
        LET element == existingElements[i]
            elementSize == ElementSize(element)
            dx2 == 2 * x - (2 * element.x + elementSize)
            dy2 == 2 * y - (2 * element.y + elementSize)
        IN  dx2 * dx2 + dy2 * dy2 < elementSize * elementSize

\* one pass of the for loop of generateFlowers
flowerStep(s) ==
    LET r1 == random(s.rnd)
        r2 == random(r1)
        r3 == random(r2)
        x == s.chunkX * chunkSize + FloorRandomTimes(r1, chunkSize)
        y == s.chunkY * chunkSize + FloorRandomTimes(r2, chunkSize)
        colorIndex == FloorRandomTimes(r3, Len(flowerColors))
        \* flowerColors[k] is undefined for k < 0 (a negative random())
        color == IF colorIndex \in 0..(Len(flowerColors) - 1)
                 THEN flowerColors[colorIndex + 1]
                 ELSE "undefined"
    IN  IF ~flowerBlocked(x, y, s.existingElements)
        THEN [s EXCEPT !.i = @ + 1, !.rnd = r3,
                       !.placed = Append(@, [x |-> x, y |-> y,
                                             color |-> color])]
        ELSE [s EXCEPT !.i = @ + 1, !.rnd = r3, !.omitted = @ + 1]

\* n passes of the for loop, the first half of them and then the rest
RECURSIVE flowerLoop(_, _)
flowerLoop(s, n) ==
    IF n <= 0
    THEN s
    ELSE IF n = 1
    THEN flowerStep(s)
    ELSE Bind(flowerLoop(s, n \div 2), LAMBDA mid : flowerLoop(mid, n - n \div 2))

\* ChunkGenerator.generateFlowers, lines 164-212, identifiers aside
placeFlowers(chunkX, chunkY, seed, existingElements) ==
    Bind([i |-> 0, count |-> 15 + Lookup(SinTenthTimes10Table, seed),
          chunkX |-> chunkX, chunkY |-> chunkY,
          rnd |-> createSeededRandom(seed + 2),
          existingElements |-> existingElements, placed |-> <<>>,
          omitted |-> 0],
         LAMBDA s :
    Bind(flowerLoop(s, s.count),
         LAMBDA end : [placed |-> end.placed, omitted |-> end.omitted]))

\* what the three loops of generateChunk(chunkX, chunkY) place
placeChunk(chunkX, chunkY) ==
    Bind(chunkX * SeedFactor + chunkY, LAMBDA chunkSeed :
    Bind(placeTrees(chunkX, chunkY, chunkSeed), LAMBDA t :
    Bind(placeBushes(chunkX, chunkY, chunkSeed, t.placed), LAMBDA b :
    Bind(placeFlowers(chunkX, chunkY, chunkSeed, t.placed \o b.placed),
         LAMBDA f : [trees |-> t, bushes |-> b, flowers |-> f]))))

(***************************************************************************)
(* State                                                                   *)
(***************************************************************************)
VARIABLES
    placements,  \* placeChunk tabulated over GenCoords; set once, never changed
    objects,     \* the Player objects: reference -> Player record
    worlds,      \* the GameWorld objects ever constructed: reference -> object
    generators,  \* free-standing ChunkGenerator objects (SpecGen)
    gameWorlds,  \* index.ts gameWorlds: worldId -> reference of a GameWorld
    conns,       \* per connection: the closure variables of io.on('connection')
    timers,      \* pending setTimeout callbacks of the disconnect handler
    now,         \* Date.now(), in ms
    nextUuid,    \* number of uuidv4() values handed out
    emptySince,  \* history: per GameWorld, when its player count last became 0
    last         \* history: the last operation, its arguments and what it returned

vars ==
    << placements, objects, worlds, generators, gameWorlds, conns, timers, now,
       nextUuid, emptySince, last >>

(***************************************************************************)
(* Bounds of the model                                                     *)
(***************************************************************************)
\* index.ts: MAX_PLAYERS_PER_WORLD = parseInt(process.env... || '100'); the
\* environment sets it to 2 here
MAX_PLAYERS_PER_WORLD == 2
\* The chunk coordinates whose placements each specification tabulates (any
\* other coordinate is computed by the loops when asked for).
WorldCoords == ((0..3) \X (0..2)) \cup {<<-1, 0>>}
ServerCoords == (2..7) \X (3..7)

(***************************************************************************)
(* Map<K, V> as a function; Map.set, Map.delete, Map.has                   *)
(***************************************************************************)
EmptyMap == [k \in {} |-> k]
MapSet(m, k, v) == [x \in DOMAIN m \cup {k} |-> IF x = k THEN v ELSE m[x]]
MapDelete(m, k) == [x \in DOMAIN m \ {k} |-> m[x]]
MapHas(m, k) == k \in DOMAIN m

\* new Set(array)
SeqToSet(seq) == {seq[i] : i \in 1..Len(seq)}

(***************************************************************************)
(* Strings: `${n}`, split(','), parseInt                                   *)
(***************************************************************************)
Digits == <<"0", "1", "2", "3", "4", "5", "6", "7", "8", "9">>

RECURSIVE NatToString(_)
NatToString(n) ==
    IF n < 10 THEN <<Digits[n + 1]>>
    ELSE NatToString(n \div 10) \o <<Digits[(n % 10) + 1]>>

\* `${n}` for an integer n
NumberToString(n) ==
    IF n < 0 THEN <<"-">> \o NatToString(-n) ELSE NatToString(n)

\* str.split(','): the pieces between the commas
RECURSIVE split(_)
split(str) ==
    IF \A i \in 1..Len(str) : str[i] # ","
    THEN <<str>>
    ELSE LET i == CHOOSE j \in 1..Len(str) :
                      str[j] = "," /\ \A k \in 1..(j - 1) : str[k] # ","
         IN  <<SubSeq(str, 1, i - 1)>> \o split(SubSeq(str, i + 1, Len(str)))

DigitValue(ch) == (CHOOSE d \in 1..10 : Digits[d] = ch) - 1
IsDigit(ch) == \E d \in 1..10 : Digits[d] = ch

\* the value of the longest prefix of digits; -1 when there is none
RECURSIVE parseDigits(_, _, _)
parseDigits(str, i, acc) ==
    IF i > Len(str) \/ ~IsDigit(str[i])
    THEN IF i = 1 THEN -1 ELSE acc
    ELSE parseDigits(str, i + 1, acc * 10 + DigitValue(str[i]))

\* parseInt(str): an optional sign, then digits; NaN without a digit
NaN == "NaN"
parseInt(str) ==
    LET negative == Len(str) > 0 /\ str[1] = "-"
        body == IF negative THEN SubSeq(str, 2, Len(str)) ELSE str
        v == parseDigits(body, 1, 0)
    IN  IF v = -1 THEN NaN ELSE IF negative THEN -v ELSE v

(***************************************************************************)
(* ChunkGenerator: the identifier counters, and generateChunk              *)
(***************************************************************************)
\* new ChunkGenerator(...).  `calls` is a history field: the coordinates
\* generateChunk was called with, in order.
NewChunkGenerator ==
    [nextTreeId |-> InitialTreeId, nextBushId |-> InitialBushId,
     nextFlowerId |-> InitialFlowerId, calls |-> <<>>]

\* the tabulated value of placeChunk where there is one
Placed(chunkX, chunkY) ==
    IF <<chunkX, chunkY>> \in DOMAIN placements
    THEN placements[<<chunkX, chunkY>>]
    ELSE placeChunk(chunkX, chunkY)

Geometry(elements) ==
    [i \in 1..Len(elements) |->
        <<elements[i].x, elements[i].y, elements[i].size>>]

IsChunkSeed(chunkX, chunkY, seed) == seed = chunkX * SeedFactor + chunkY

\* id: this.nextTreeId++ on the k-th push
StampSized(placed, firstId) ==
    [k \in 1..Len(placed) |->
        [id |-> firstId + (k - 1), x |-> placed[k].x, y |-> placed[k].y,
         size |-> placed[k].size, color |-> placed[k].color,
         variant |-> placed[k].variant]]

StampFlowers(placed, firstId) ==
    [k \in 1..Len(placed) |->
        [id |-> firstId + (k - 1), x |-> placed[k].x, y |-> placed[k].y,
         color |-> placed[k].color]]

\* Mutant of generateTrees: the random stream is seeded from the generator's
\* counter, not from the chunk seed.
generateTrees_CounterSeeded(this, chunkX, chunkY, seed) ==
    Bind([i |-> 0, count |-> 5 + Lookup(SinTimes5Table, seed),
          chunkX |-> chunkX, chunkY |-> chunkY,
          rnd |-> createSeededRandom(this.nextTreeId),
          placed |-> <<>>, omitted |-> 0, gaveUp |-> <<>>],
         LAMBDA s :
    Bind(treeLoop(s, s.count),
         LAMBDA t : [trees |-> StampSized(t.placed, this.nextTreeId),
                     this |-> [this EXCEPT !.nextTreeId = @ + Len(t.placed)]]))

generateTrees(this, chunkX, chunkY, seed) ==
    Bind(IF IsChunkSeed(chunkX, chunkY, seed)
         THEN Placed(chunkX, chunkY).trees
         ELSE placeTrees(chunkX, chunkY, seed),
         LAMBDA t : [trees |-> StampSized(t.placed, this.nextTreeId),
                     this |-> [this EXCEPT !.nextTreeId = @ + Len(t.placed)]])

generateBushes(this, chunkX, chunkY, seed, existingElements) ==
    Bind(IF /\ IsChunkSeed(chunkX, chunkY, seed)
            /\ Geometry(existingElements)
                 = Geometry(Placed(chunkX, chunkY).trees.placed)
         THEN Placed(chunkX, chunkY).bushes
         ELSE placeBushes(chunkX, chunkY, seed, existingElements),
         LAMBDA b : [bushes |-> StampSized(b.placed, this.nextBushId),
                     this |-> [this EXCEPT !.nextBushId = @ + Len(b.placed)]])

generateFlowers(this, chunkX, chunkY, seed, existingElements) ==
    Bind(IF /\ IsChunkSeed(chunkX, chunkY, seed)
            /\ Geometry(existingElements)
                 = Geometry(Placed(chunkX, chunkY).trees.placed
                            \o Placed(chunkX, chunkY).bushes.placed)
         THEN Placed(chunkX, chunkY).flowers
         ELSE placeFlowers(chunkX, chunkY, seed, existingElements),
         LAMBDA f : [flowers |-> StampFlowers(f.placed, this.nextFlowerId),
                     this |-> [this EXCEPT
                                  !.nextFlowerId = @ + Len(f.placed)]])

\* Mutant of chunkSeedOf: the columns are 5000 apart.
chunkSeedOf_Factor5000(chunkX, chunkY) == chunkX * 5000 + chunkY

\* const chunkSeed = chunkX * 10000 + chunkY
chunkSeedOf(chunkX, chunkY) == chunkX * SeedFactor + chunkY

\* ChunkGenerator.generateChunk: the chunk, and the generator afterwards
generateChunk(this, chunkX, chunkY) ==
    Bind(chunkSeedOf(chunkX, chunkY), LAMBDA chunkSeed :
    Bind(generateTrees(this, chunkX, chunkY, chunkSeed), LAMBDA t :
    Bind(generateBushes(t.this, chunkX, chunkY, chunkSeed, t.trees), LAMBDA b :
    Bind(t.trees \o b.bushes, LAMBDA treesAndBushes :
    Bind(generateFlowers(b.this, chunkX, chunkY, chunkSeed, treesAndBushes),
         LAMBDA f :
             [chunk |-> [x |-> chunkX, y |-> chunkY, trees |-> t.trees,
                         bushes |-> b.bushes, flowers |-> f.flowers,
                         isLoaded |-> TRUE],
              this |-> [f.this EXCEPT
                           !.calls = Append(@, <<chunkX, chunkY>>)]])))))

(***************************************************************************)
(* GameWorld (server/src/game/GameWorld.ts).  A GameWorld object is a      *)
(* record of its private fields; `players` maps a player id to the         *)
(* reference of the Player object stored (Map.set stores the object, not   *)
(* a copy).  Every method is an operator from the object (`this`) to the   *)
(* object afterwards and the value returned.                               *)
(***************************************************************************)
\* new GameWorld(id, maxPlayers)
NewGameWorld(id, maxPlayers) ==
    [id |-> id, players |-> EmptyMap, maxPlayers |-> maxPlayers,
     chunkGenerator |-> NewChunkGenerator, loadedChunks |-> EmptyMap,
     playerChunks |-> EmptyMap]

\* the key of chunk coordinate (chunkX, chunkY): `${chunkX},${chunkY}`
ChunkKeyOf(chunkX, chunkY) ==
    NumberToString(chunkX) \o <<",">> \o NumberToString(chunkY)

getChunkKey(x, y) ==
    LET chunkX == Floor(x, chunkSize)
        chunkY == Floor(y, chunkSize)
    IN  ChunkKeyOf(chunkX, chunkY)

\* Mutant of getChunksForPosition: the upper bounds are tested with > where
\* the code has >=.
getChunksForPosition_BoundIncluded(position, distance) ==
    LET centerChunkX == Floor(position.x, chunkSize)
        centerChunkY == Floor(position.y, chunkSize)
        n == 2 * distance + 1
        square == [i \in 1..(n * n) |->
                      <<centerChunkX - distance + ((i - 1) \div n),
                        centerChunkY - distance + ((i - 1) % n)>>]
        inside(c) == ~(\/ c[1] < 0
                       \/ c[2] < 0
                       \/ c[1] * chunkSize > worldWidth
                       \/ c[2] * chunkSize > worldHeight)
        kept == SelectSeq(square, inside)
    IN  [i \in 1..Len(kept) |->
            NumberToString(kept[i][1]) \o <<",">> \o NumberToString(kept[i][2])]

\* the loops of getChunksForPosition: x outer, y inner, skipping what lies
\* outside the world
getChunksForPosition(position, distance) ==
    LET centerChunkX == Floor(position.x, chunkSize)
        centerChunkY == Floor(position.y, chunkSize)
        n == 2 * distance + 1
        square == [i \in 1..(n * n) |->
                      <<centerChunkX - distance + ((i - 1) \div n),
                        centerChunkY - distance + ((i - 1) % n)>>]
        inside(c) == ~(\/ c[1] < 0
                       \/ c[2] < 0
                       \/ c[1] * chunkSize >= worldWidth
                       \/ c[2] * chunkSize >= worldHeight)
        kept == SelectSeq(square, inside)
    IN  [i \in 1..Len(kept) |-> ChunkKeyOf(kept[i][1], kept[i][2])]

\* Mutant of isFull: > where the code has >=.
isFull_GreaterThan(this) == Cardinality(DOMAIN this.players) > this.maxPlayers

\* Mutant of isFull: a world is never full.
isFull_Never(this) == FALSE

isFull(this) == Cardinality(DOMAIN this.players) >= this.maxPlayers

getPlayerCount(this) == Cardinality(DOMAIN this.players)

\* Mutant of getOrGenerateChunk: the cache is not consulted, the chunk is
\* generated again and replaces the cached one.
getOrGenerateChunk_Regenerate(this, chunkKey) ==
    Bind(split(chunkKey), LAMBDA parts :
    Bind(generateChunk(this.chunkGenerator, parseInt(parts[1]),
                       parseInt(parts[2])),
         LAMBDA g :
             [this |-> [this EXCEPT !.chunkGenerator = g.this,
                                    !.loadedChunks =
                                        MapSet(@, chunkKey, g.chunk)],
              chunk |-> g.chunk]))

\* Mutant of getOrGenerateChunk: a generated chunk is returned but not stored.
getOrGenerateChunk_NotStored(this, chunkKey) ==
    IF MapHas(this.loadedChunks, chunkKey)
    THEN [this |-> this, chunk |-> this.loadedChunks[chunkKey]]
    ELSE Bind(split(chunkKey), LAMBDA parts :
         Bind(generateChunk(this.chunkGenerator, parseInt(parts[1]),
                            parseInt(parts[2])),
              LAMBDA g : [this |-> [this EXCEPT !.chunkGenerator = g.this],
                          chunk |-> g.chunk]))

\* GameWorld.getOrGenerateChunk
getOrGenerateChunk(this, chunkKey) ==
    IF MapHas(this.loadedChunks, chunkKey)
    THEN [this |-> this, chunk |-> this.loadedChunks[chunkKey]]
    ELSE Bind(split(chunkKey), LAMBDA parts :
         Bind(parseInt(parts[1]), LAMBDA chunkX :
         Bind(parseInt(parts[2]), LAMBDA chunkY :
         Bind(generateChunk(this.chunkGenerator, chunkX, chunkY), LAMBDA g :
             [this |-> [this EXCEPT !.chunkGenerator = g.this,
                                    !.loadedChunks =
                                        MapSet(@, chunkKey, g.chunk)],
              chunk |-> g.chunk]))))

\* chunkKeys.map(key => this.getOrGenerateChunk(key)), and the for loop of
\* addPlayer: the keys are taken in order
RECURSIVE mapGetOrGenerate(_, _, _, _)
mapGetOrGenerate(this, chunkKeys, i, chunks) ==
    IF i > Len(chunkKeys)
    THEN [this |-> this, chunks |-> chunks]
    ELSE Bind(getOrGenerateChunk(this, chunkKeys[i]), LAMBDA r :
         Bind(Append(chunks, r.chunk), LAMBDA got :
             mapGetOrGenerate(r.this, chunkKeys, i + 1, got)))

\* Mutant of addPlayer: the player's chunk set starts empty instead of
\* holding the chunks around the player.
addPlayer_EmptyChunkSet(this, ref, player) ==
    IF MapHas(this.players, player.id)
    THEN this
    ELSE Bind(getChunksForPosition(player.position, DefaultDistance),
              LAMBDA chunkKeys :
         Bind([this EXCEPT !.players = MapSet(@, player.id, ref),
                           !.playerChunks = MapSet(@, player.id, {})],
              LAMBDA registered :
                  mapGetOrGenerate(registered, chunkKeys, 1, <<>>).this))

\* Mutant of addPlayer: the chunks around the player are tracked but not
\* loaded.
addPlayer_NotLoading(this, ref, player) ==
    IF MapHas(this.players, player.id)
    THEN this
    ELSE Bind(getChunksForPosition(player.position, DefaultDistance),
              LAMBDA chunkKeys :
                  [this EXCEPT !.players = MapSet(@, player.id, ref),
                               !.playerChunks =
                                   MapSet(@, player.id, SeqToSet(chunkKeys))])

\* Mutant of addPlayer: a player already registered is registered anew.
addPlayer_Overwrite(this, ref, player) ==
    Bind(getChunksForPosition(player.position, DefaultDistance),
         LAMBDA chunkKeys :
    Bind([this EXCEPT !.players = MapSet(@, player.id, ref),
                      !.playerChunks =
                          MapSet(@, player.id, SeqToSet(chunkKeys))],
         LAMBDA registered :
             mapGetOrGenerate(registered, chunkKeys, 1, <<>>).this))

\* GameWorld.addPlayer(player); `ref` is the reference of the Player object
addPlayer(this, ref, player) ==
    IF MapHas(this.players, player.id)
    THEN this
    ELSE Bind(getChunksForPosition(player.position, DefaultDistance),
              LAMBDA chunkKeys :
         Bind([this EXCEPT !.players = MapSet(@, player.id, ref),
                           !.playerChunks =
                               MapSet(@, player.id, SeqToSet(chunkKeys))],
              LAMBDA registered :
                  mapGetOrGenerate(registered, chunkKeys, 1, <<>>).this))

\* Mutant of updatePlayer: the record is stored whether or not the id is
\* registered.
updatePlayer_Upsert(this, ref, player) ==
    [this EXCEPT !.players = MapSet(@, player.id, ref)]

\* GameWorld.updatePlayer(player)
updatePlayer(this, ref, player) ==
    IF ~MapHas(this.players, player.id)
    THEN this
    ELSE [this EXCEPT !.players = MapSet(@, player.id, ref)]

\* GameWorld.removePlayer(playerId)
removePlayer(this, playerId) ==
    [this EXCEPT !.players = MapDelete(@, playerId),
                 !.playerChunks = MapDelete(@, playerId)]

\* GameWorld.getChunksNearPosition(position, distance)
getChunksNearPosition(this, position, distance) ==
    Bind(getChunksForPosition(position, distance), LAMBDA chunkKeys :
        mapGetOrGenerate(this, chunkKeys, 1, <<>>))

\* this.playerChunks.get(player.id) || new Set()
PrevOf(this, id) ==
    IF MapHas(this.playerChunks, id) THEN this.playerChunks[id] ELSE {}

\* Mutant of getNewChunksForPlayer: the current keys are added to the stored
\* set instead of replacing it.
getNewChunksForPlayer_Union(this, player) ==
    Bind(getChunksForPosition(player.position, DefaultDistance),
         LAMBDA currentChunkKeys :
    Bind(PrevOf(this, player.id), LAMBDA prevChunkKeys :
    Bind(SelectSeq(currentChunkKeys, LAMBDA key : key \notin prevChunkKeys),
         LAMBDA newChunkKeys :
    Bind([this EXCEPT !.playerChunks =
             MapSet(@, player.id,
                    prevChunkKeys \cup SeqToSet(currentChunkKeys))],
         LAMBDA updated : mapGetOrGenerate(updated, newChunkKeys, 1, <<>>)))))

\* Mutant of getNewChunksForPlayer: the stored set is left as it was.
getNewChunksForPlayer_NoUpdate(this, player) ==
    Bind(getChunksForPosition(player.position, DefaultDistance),
         LAMBDA currentChunkKeys :
    Bind(PrevOf(this, player.id), LAMBDA prevChunkKeys :
    Bind(SelectSeq(currentChunkKeys, LAMBDA key : key \notin prevChunkKeys),
         LAMBDA newChunkKeys :
             mapGetOrGenerate(this, newChunkKeys, 1, <<>>))))

\* Mutant of getNewChunksForPlayer: the chunk sets of the other players
\* are dropped.
getNewChunksForPlayer_DropOthers(this, player) ==
    Bind(getChunksForPosition(player.position, DefaultDistance),
         LAMBDA currentChunkKeys :
    Bind(PrevOf(this, player.id), LAMBDA prevChunkKeys :
    Bind(SelectSeq(currentChunkKeys, LAMBDA key : key \notin prevChunkKeys),
         LAMBDA newChunkKeys :
    Bind([this EXCEPT !.playerChunks =
             MapSet(EmptyMap, player.id, SeqToSet(currentChunkKeys))],
         LAMBDA updated : mapGetOrGenerate(updated, newChunkKeys, 1, <<>>)))))

\* GameWorld.getNewChunksForPlayer(player)
getNewChunksForPlayer(this, player) ==
    Bind(getChunksForPosition(player.position, DefaultDistance),
         LAMBDA currentChunkKeys :
    Bind(PrevOf(this, player.id), LAMBDA prevChunkKeys :
    Bind(SelectSeq(currentChunkKeys, LAMBDA key : key \notin prevChunkKeys),
         LAMBDA newChunkKeys :
    Bind([this EXCEPT !.playerChunks =
             MapSet(@, player.id, SeqToSet(currentChunkKeys))],
         LAMBDA updated : mapGetOrGenerate(updated, newChunkKeys, 1, <<>>)))))

\* GameWorld.getChunkAtPosition(position)
getChunkAtPosition(this, position) ==
    LET chunkKey == getChunkKey(position.x, position.y)
    IN  getOrGenerateChunk(this, chunkKey)

(***************************************************************************)
(* Player objects and observations                                         *)
(***************************************************************************)
Pos(x, y) == [x |-> x, y |-> y]

\* a Player (types/Player.ts); the username is left out, no code reads it
\* but the log lines
NewPlayer(id, position, lastUpdate) ==
    [id |-> id, position |-> position, direction |-> "down",
     isMoving |-> FALSE, lastUpdate |-> lastUpdate]

\* no operation yet
NoObs ==
    [op |-> "none", conn |-> 0, world |-> 0, id |-> 0, ref |-> 0,
     position |-> Pos(0, 0), distance |-> 0, keys |-> <<>>, ret |-> <<>>,
     hadPrev |-> FALSE, prev |-> {}, removed |-> 0, emitted |-> "none"]

PlacementTable(coords) == [c \in coords |-> placeChunk(c[1], c[2])]

(***************************************************************************)
(* SpecWorld: one GameWorld object (worlds[1]) and a caller that invokes   *)
(* its public methods in any order with any of the Player objects below.   *)
(***************************************************************************)
\* the Player objects handed to the world: two ids, at a position in
\* chunk (0,0) and one in chunk (1,0)
WorldObjects ==
    << NewPlayer(1, Pos(100, 100), 0), NewPlayer(1, Pos(600, 100), 0),
       NewPlayer(2, Pos(100, 100), 0), NewPlayer(2, Pos(600, 100), 0) >>

WorldPlayerIds == {WorldObjects[r].id : r \in DOMAIN WorldObjects}

\* (position, distance) arguments of getChunksNearPosition
NearArguments == { <<Pos(100, 100), 1>> }

\* arguments of getChunkAtPosition: inside and outside the world
AtArguments == { Pos(-100, 100) }

InitWorld ==
    /\ placements = PlacementTable(WorldCoords)
    /\ objects = WorldObjects
    /\ worlds = <<NewGameWorld("world", MAX_PLAYERS_PER_WORLD)>>
    /\ generators = <<>>
    /\ gameWorlds = EmptyMap
    /\ conns = <<>>
    /\ timers = <<>>
    /\ now = 0
    /\ nextUuid = 0
    /\ emptySince = <<0>>
    /\ last = NoObs

ServerUnchanged ==
    UNCHANGED << placements, objects, generators, gameWorlds, conns, timers,
                 now, nextUuid, emptySince >>

WAddPlayer(ref) ==
    /\ worlds' = [worlds EXCEPT ![1] = addPlayer(@, ref, objects[ref])]
    /\ last' = [NoObs EXCEPT !.op = "addPlayer", !.world = 1,
                             !.id = objects[ref].id, !.ref = ref,
                             !.position = objects[ref].position,
                             !.hadPrev = MapHas(worlds[1].players,
                                                objects[ref].id)]
    /\ ServerUnchanged

WUpdatePlayer(ref) ==
    /\ worlds' = [worlds EXCEPT ![1] = updatePlayer(@, ref, objects[ref])]
    /\ last' = [NoObs EXCEPT !.op = "updatePlayer", !.world = 1,
                             !.id = objects[ref].id, !.ref = ref,
                             !.position = objects[ref].position,
                             !.hadPrev = MapHas(worlds[1].players,
                                                objects[ref].id)]
    /\ ServerUnchanged

WRemovePlayer(id) ==
    /\ worlds' = [worlds EXCEPT ![1] = removePlayer(@, id)]
    /\ last' = [NoObs EXCEPT !.op = "removePlayer", !.world = 1, !.id = id,
                             !.hadPrev = MapHas(worlds[1].players, id)]
    /\ ServerUnchanged

WGetNewChunksForPlayer(ref) ==
    \E r \in {getNewChunksForPlayer(worlds[1], objects[ref])} :
        /\ worlds' = [worlds EXCEPT ![1] = r.this]
        /\ last' = [NoObs EXCEPT !.op = "getNewChunksForPlayer", !.world = 1,
                                 !.id = objects[ref].id, !.ref = ref,
                                 !.position = objects[ref].position,
                                 !.distance = DefaultDistance,
                                 !.ret = r.chunks,
                                 !.hadPrev = MapHas(worlds[1].playerChunks,
                                                    objects[ref].id),
                                 !.prev = PrevOf(worlds[1], objects[ref].id)]
        /\ ServerUnchanged

WGetChunksNearPosition(position, distance) ==
    \E r \in {getChunksNearPosition(worlds[1], position, distance)} :
        /\ worlds' = [worlds EXCEPT ![1] = r.this]
        /\ last' = [NoObs EXCEPT !.op = "getChunksNearPosition", !.world = 1,
                                 !.position = position,
                                 !.distance = distance,
                                 !.ret = r.chunks]
        /\ ServerUnchanged

WGetChunkAtPosition(position) ==
    \E r \in {getChunkAtPosition(worlds[1], position)} :
        /\ worlds' = [worlds EXCEPT ![1] = r.this]
        /\ last' = [NoObs EXCEPT !.op = "getChunkAtPosition", !.world = 1,
                                 !.position = position, !.ret = <<r.chunk>>]
        /\ ServerUnchanged

NextWorld ==
    \/ \E ref \in DOMAIN objects : WAddPlayer(ref)
    \/ \E ref \in DOMAIN objects : WUpdatePlayer(ref)
    \/ \E id \in WorldPlayerIds : WRemovePlayer(id)
    \/ \E ref \in DOMAIN objects : WGetNewChunksForPlayer(ref)
    \/ \E a \in NearArguments : WGetChunksNearPosition(a[1], a[2])
    \/ \E position \in AtArguments : WGetChunkAtPosition(position)

SpecWorld == InitWorld /\ [][NextWorld]_vars

(***************************************************************************)
(* Claims about one GameWorld (SpecWorld)                                  *)
(***************************************************************************)
\* the chunk set of a position: chunksNear(position) as a set of keys
ChunksNear(position) ==
    SeqToSet(getChunksForPosition(position, DefaultDistance))

ReturnedKeys(obs) == {ChunkKeyOf(obs.ret[i].x, obs.ret[i].y) : i \in 1..Len(obs.ret)}

\* C1: for a tracked player whose stored chunk set is S0, a call of
\* getNewChunksForPlayer with a position whose chunk set is S1 returns
\* exactly the chunks of S1 \ S0, each once, and leaves S1 stored.
C1_DeltaIsExactAndReplaces ==
    [][ (/\ last'.op = "getNewChunksForPlayer"
         /\ MapHas(worlds[1].players, last'.id)
         /\ MapHas(worlds[1].playerChunks, last'.id))
        => LET S0 == worlds[1].playerChunks[last'.id]
               S1 == ChunksNear(last'.position)
           IN  /\ ReturnedKeys(last') = S1 \ S0
               /\ Len(last'.ret) = Cardinality(S1 \ S0)
               /\ \A i \in 1..Len(last'.ret) :
                      last'.ret[i] =
                          worlds'[1].loadedChunks[
                              ChunkKeyOf(last'.ret[i].x, last'.ret[i].y)]
               /\ worlds'[1].playerChunks[last'.id] = S1 ]_vars

\* C1 witness: a tracked player moved from chunk (1,0) back to chunk (0,0)
\* or forth: the call returned chunks, and the set stored before held keys
\* that the new set does not hold or the other way round.
C1_Witness ==
    /\ last.op = "getNewChunksForPlayer"
    /\ last.hadPrev
    /\ MapHas(worlds[1].players, last.id)
    /\ Len(last.ret) > 0
    /\ last.prev # {}
    /\ worlds[1].playerChunks[last.id] = ChunksNear(last.position)

\* C2: addPlayer at position P stores chunksNear(P) for the new player; a
\* getNewChunksForPlayer call with the same position that follows it returns
\* nothing, and so does every further such call.
C2_NoMovementNoChunks ==
    [][ /\ (last'.op = "addPlayer" /\ ~last'.hadPrev)
            => /\ MapHas(worlds'[1].playerChunks, last'.id)
               /\ worlds'[1].playerChunks[last'.id] = ChunksNear(last'.position)
        /\ (/\ last.op \in {"addPlayer", "getNewChunksForPlayer"}
            /\ (last.op = "addPlayer" => ~last.hadPrev)
            /\ last'.op = "getNewChunksForPlayer"
            /\ last'.id = last.id
            /\ last'.position = last.position)
            => /\ last'.ret = <<>>
               /\ worlds'[1].playerChunks[last'.id] = ChunksNear(last'.position)
      ]_vars

\* C2 witness: a registered player, stored at the position of the call, for
\* whom getNewChunksForPlayer returned nothing.
C2_Witness ==
    /\ last.op = "getNewChunksForPlayer"
    /\ last.ret = <<>>
    /\ MapHas(worlds[1].players, last.id)
    /\ objects[worlds[1].players[last.id]].position = last.position
    /\ last.prev = ChunksNear(last.position)

\* C6: a player id has a stored chunk set exactly if it is registered.
C6_ChunkSetIffRegistered ==
    \A w \in DOMAIN worlds :
        DOMAIN worlds[w].playerChunks = DOMAIN worlds[w].players

\* C7: a cached chunk stays cached, unchanged, whatever operation follows.
C7_CacheOnlyGrows ==
    [][ \A w \in DOMAIN worlds :
          \A key \in DOMAIN worlds[w].loadedChunks :
              /\ MapHas(worlds'[w].loadedChunks, key)
              /\ worlds'[w].loadedChunks[key] = worlds[w].loadedChunks[key]
      ]_vars

\* C7 witness: a player moved from chunk (0,0) to chunk (1,0); the call
\* generated the three chunks of column 3 into a cache that held others.
C7_Witness ==
    /\ last.op = "getNewChunksForPlayer"
    /\ Len(last.ret) = 3
    /\ Cardinality(DOMAIN worlds[1].loadedChunks) >= 12
    /\ LET calls == worlds[1].chunkGenerator.calls
       IN  /\ Len(calls) >= 12
           /\ calls[Len(calls)] = <<last.ret[3].x, last.ret[3].y>>

NoDuplicates(seq) == \A i, j \in 1..Len(seq) : i # j => seq[i] # seq[j]

\* C8: a world's generator is invoked at most once per coordinate, and
\* every chunk an operation returns is the chunk the cache holds for its
\* coordinate: the one returned before, if the coordinate was cached before.
C8_SameChunkEveryCall ==
    /\ [](\A w \in DOMAIN worlds :
              NoDuplicates(worlds[w].chunkGenerator.calls))
    /\ [][ \A i \in 1..Len(last'.ret) :
             LET key == ChunkKeyOf(last'.ret[i].x, last'.ret[i].y)
             IN  /\ MapHas(worlds'[last'.world].loadedChunks, key)
                 /\ worlds'[last'.world].loadedChunks[key] = last'.ret[i]
                 /\ MapHas(worlds[last'.world].loadedChunks, key)
                      => worlds[last'.world].loadedChunks[key] = last'.ret[i]
         ]_vars

\* C8 witness: a call returned chunks that were cached before it.
C8_Witness ==
    /\ last.op = "getChunksNearPosition"
    /\ Len(last.ret) = 4
    /\ Len(worlds[1].chunkGenerator.calls) >= 9
    /\ worlds[1].chunkGenerator.calls[1] # <<0, 0>>

(***************************************************************************)
(* SpecKeys: getChunksForPosition as a function of its arguments.          *)
(***************************************************************************)
\* largest distance argument
MaxDistance == 3
KeyPositions ==
    { Pos(x, y) : x \in {-600, -1, 0, 499, 500, 2500, 4499, 4999, 5000, 5600},
                  y \in {-1, 100, 2500, 4999, 5200} }

InitKeys ==
    /\ placements = EmptyMap
    /\ objects = <<>>
    /\ worlds = <<>>
    /\ generators = <<>>
    /\ gameWorlds = EmptyMap
    /\ conns = <<>>
    /\ timers = <<>>
    /\ now = 0
    /\ nextUuid = 0
    /\ emptySince = <<>>
    /\ \E position \in KeyPositions, distance \in 0..MaxDistance :
           last = [NoObs EXCEPT !.op = "arguments", !.position = position,
                                !.distance = distance]

CallGetChunksForPosition ==
    /\ last.op = "arguments"
    /\ last' = [last EXCEPT !.op = "getChunksForPosition",
                            !.keys = getChunksForPosition(last.position,
                                                          last.distance)]
    /\ UNCHANGED << placements, objects, worlds, generators, gameWorlds,
                    conns, timers, now, nextUuid, emptySince >>

NextKeys == CallGetChunksForPosition

SpecKeys == InitKeys /\ [][NextKeys]_vars

\* the coordinate a key is parsed to (as getOrGenerateChunk parses it)
ParsedKey(chunkKey) ==
    <<parseInt(split(chunkKey)[1]), parseInt(split(chunkKey)[2])>>

\* C9: chunksNear(position, r) returns exactly the coordinates (x, y) with
\* |x - cx| <= r, |y - cy| <= r, x >= 0, y >= 0, x * chunkSize < worldWidth
\* and y * chunkSize < worldHeight, each once; for (2500, 2500) and r = 2
\* these are the 25 coordinates (3,3) .. (7,7).
C9_ChunksNearIsClippedSquare ==
    last.op = "getChunksForPosition" =>
        LET cx == last.position.x \div chunkSize
            cy == last.position.y \div chunkSize
            r == last.distance
            expected ==
                { c \in ((cx - r)..(cx + r)) \X ((cy - r)..(cy + r)) :
                    /\ c[1] >= 0
                    /\ c[2] >= 0
                    /\ c[1] * chunkSize < worldWidth
                    /\ c[2] * chunkSize < worldHeight }
            returned == {ParsedKey(last.keys[i]) : i \in 1..Len(last.keys)}
        IN  /\ returned = expected
            /\ Len(last.keys) = Cardinality(expected)
            /\ (last.position = Pos(2500, 2500) /\ r = 2)
                   => returned = (3..7) \X (3..7)

\* C9 witness: a call at the east edge of the world whose square is clipped
\* at the upper bound and, below, at 0.
C9_Witness ==
    /\ last.op = "getChunksForPosition"
    /\ last.position = Pos(4999, 100)
    /\ last.distance = 2
    /\ Len(last.keys) = 9

(***************************************************************************)
(* SpecGen: two ChunkGenerator objects, generateChunk called on either     *)
(* with any coordinate of GenTestCoords, in any order.                     *)
(***************************************************************************)
\* generateChunk calls per generator
MaxGenerateCalls == 2
GenTestCoords == { <<0, 0>>, <<1, 0>>, <<-1, 0>>, <<2, 1>> }

InitGen ==
    /\ placements = PlacementTable(GenTestCoords)
    /\ objects = <<>>
    /\ worlds = <<>>
    /\ generators = <<NewChunkGenerator, NewChunkGenerator>>
    /\ gameWorlds = EmptyMap
    /\ conns = <<>>
    /\ timers = <<>>
    /\ now = 0
    /\ nextUuid = 0
    /\ emptySince = <<>>
    /\ last = NoObs

GenerateChunk(g, c) ==
    /\ Len(generators[g].calls) < MaxGenerateCalls
    /\ \E r \in {generateChunk(generators[g], c[1], c[2])} :
           /\ generators' = [generators EXCEPT ![g] = r.this]
           /\ last' = [NoObs EXCEPT !.op = "generateChunk", !.world = g,
                                    !.position = Pos(c[1], c[2]),
                                    !.ret = <<r.chunk>>]
    /\ UNCHANGED << placements, objects, worlds, gameWorlds, conns, timers,
                    now, nextUuid, emptySince >>

NextGen == \E g \in DOMAIN generators, c \in GenTestCoords : GenerateChunk(g, c)

SpecGen == InitGen /\ [][NextGen]_vars

\* a chunk without its identifiers
SizedContent(elements) ==
    [i \in 1..Len(elements) |->
        [x |-> elements[i].x, y |-> elements[i].y, size |-> elements[i].size,
         color |-> elements[i].color, variant |-> elements[i].variant]]

FlowerContent(elements) ==
    [i \in 1..Len(elements) |->
        [x |-> elements[i].x, y |-> elements[i].y, color |-> elements[i].color]]

Content(chunk) ==
    [x |-> chunk.x, y |-> chunk.y, trees |-> SizedContent(chunk.trees),
     bushes |-> SizedContent(chunk.bushes),
     flowers |-> FlowerContent(chunk.flowers)]

\* C10: two calls of generateChunk for the same coordinate yield the same
\* entities (positions, sizes, colours, variants), whichever generator
\* makes each call and whatever either generated before.
C10_ContentIsDeterministic ==
    [][ (/\ last.op = "generateChunk"
         /\ last'.op = "generateChunk"
         /\ last'.position = last.position)
        => Content(last'.ret[1]) = Content(last.ret[1]) ]_vars

\* C10 witness: a generator that had generated another chunk before
\* generated a coordinate that the other generator generated first.
C10_Witness ==
    /\ last.op = "generateChunk"
    /\ last.ret[1].trees[1].id > InitialTreeId
    /\ \E g \in DOMAIN generators :
           /\ g # last.world
           /\ Len(generators[g].calls) > 0
           /\ generators[g].calls[1] = <<last.position.x, last.position.y>>

\* twice the distance between the centres of two entities, squared; the
\* centre of an entity is (x + size/2, y + size/2)
DoubledCenterDistanceSquared(a, b) ==
    ((2 * a.x + a.size) - (2 * b.x + b.size))
        * ((2 * a.x + a.size) - (2 * b.x + b.size))
    + ((2 * a.y + a.size) - (2 * b.y + b.size))
        * ((2 * a.y + a.size) - (2 * b.y + b.size))

\* distance >= (size1 + size2)/2 + 10, both sides doubled and squared
Separated(a, b) ==
    DoubledCenterDistanceSquared(a, b)
        >= (a.size + b.size + 20) * (a.size + b.size + 20)

\* C11: in every generated chunk, every two distinct trees, every two
\* distinct bushes and every tree and bush have their centres at least
\* (size1 + size2)/2 + 10 apart.
C11_TreesAndBushesKeepTheirDistance ==
    last.op = "generateChunk" =>
        LET chunk == last.ret[1]
            sized == chunk.trees \o chunk.bushes
        IN  \A i, j \in 1..Len(sized) :
                i < j => Separated(sized[i], sized[j])

\* C11 witness: a generated chunk with several trees and several bushes in
\* which a tree and a bush were placed only at a later attempt, the earlier
\* candidates having collided.
C11_Witness ==
    /\ last.op = "generateChunk"
    /\ Len(last.ret[1].trees) >= 2
    /\ Len(last.ret[1].bushes) >= 2
    /\ LET placed == placements[<<last.position.x, last.position.y>>]
       IN  /\ \E k \in 1..Len(placed.trees.placed) :
                  placed.trees.placed[k].attempts > 1
           /\ \E k \in 1..Len(placed.bushes.placed) :
                  placed.bushes.placed[k].attempts > 1

\* C13: addPlayer with an id that is already registered changes nothing:
\* not the stored record, not a chunk set, not another player, not the
\* chunk cache (the world object and every Player object are as before).
C13_DuplicateAddPlayerIsNoOp ==
    [][ (last'.op = "addPlayer" /\ last'.hadPrev)
        => (worlds' = worlds /\ objects' = objects) ]_vars

\* C13 witness: addPlayer was called with a Player object of a registered
\* id whose position differs from the position of the stored record.
C13_Witness ==
    /\ last.op = "addPlayer"
    /\ last.hadPrev
    /\ MapHas(worlds[1].players, last.id)
    /\ worlds[1].players[last.id] # last.ref
    /\ objects[worlds[1].players[last.id]].position # last.position
    /\ worlds[1].playerChunks[last.id]
           # SeqToSet(getChunksForPosition(last.position, DefaultDistance))

\* C14: updatePlayer changes nothing for an id that is not registered, and
\* for a registered id it changes only the record stored for that id, to
\* the record passed: every chunk set, the chunk cache, the generator and
\* the records of the other ids are as before.
C14_UpdatePlayerReplacesOneRecord ==
    [][ last'.op = "updatePlayer"
        => /\ objects' = objects
           /\ ~last'.hadPrev => worlds' = worlds
           /\ last'.hadPrev =>
                 /\ worlds'[1] =
                       [worlds[1] EXCEPT !.players =
                           [id \in DOMAIN worlds[1].players |->
                               IF id = last'.id THEN last'.ref
                               ELSE worlds[1].players[id]]]
                 /\ worlds'[1].playerChunks = worlds[1].playerChunks
                 /\ worlds'[1].loadedChunks = worlds[1].loadedChunks ]_vars

\* C14 witness: updatePlayer stored a record for a registered id, another
\* id being registered as well; the record's position is in other chunks
\* than the id's chunk set was made for.
C14_Witness ==
    /\ last.op = "updatePlayer"
    /\ last.hadPrev
    /\ worlds[1].players[last.id] = last.ref
    /\ \E id \in DOMAIN worlds[1].players : id # last.id
    /\ MapHas(worlds[1].playerChunks, last.id)
    /\ worlds[1].playerChunks[last.id]
           # SeqToSet(getChunksForPosition(last.position, DefaultDistance))

(***************************************************************************)
(* SpecUnregistered: the world and the caller of SpecWorld, the caller     *)
(* never calling addPlayer.  No id is ever registered in this world: each  *)
(* id the caller passes is a never-registered id.                          *)
(***************************************************************************)
NextUnregistered ==
    \/ \E ref \in DOMAIN objects : WUpdatePlayer(ref)
    \/ \E id \in WorldPlayerIds : WRemovePlayer(id)
    \/ \E ref \in DOMAIN objects : WGetNewChunksForPlayer(ref)
    \/ \E a \in NearArguments : WGetChunksNearPosition(a[1], a[2])
    \/ \E position \in AtArguments : WGetChunkAtPosition(position)

SpecUnregistered == InitWorld /\ [][NextUnregistered]_vars

\* C15: removePlayer(id) leaves the world without a record and without a
\* chunk set for id and with everything else as before (the other ids'
\* records and chunk sets, the chunk cache, the Player objects); a second
\* removePlayer(id) would change nothing; and removePlayer of an id that
\* is not registered (in SpecUnregistered: was never registered) leaves
\* the world exactly as it was.
C15_RemovePlayerIsIdempotent ==
    [][ last'.op = "removePlayer"
        => /\ objects' = objects
           /\ worlds'[1] =
                 [worlds[1] EXCEPT
                     !.players =
                         [id \in DOMAIN @ \ {last'.id} |->
                             worlds[1].players[id]],
                     !.playerChunks =
                         [id \in DOMAIN @ \ {last'.id} |->
                             worlds[1].playerChunks[id]]]
           /\ removePlayer(worlds'[1], last'.id) = worlds'[1]
           /\ ~last'.hadPrev => worlds' = worlds ]_vars

(***************************************************************************)
(* SpecIds: a GameWorld late in its life.  getChunkAtPosition generates    *)
(* the chunk of any position, inside the world or not, so one world's      *)
(* generator can be asked for any number of chunks.  The world below was   *)
(* asked for the chunk at (100, 100), chunk (0,0), and then for the chunks *)
(* at (500 * k + 100, 100), chunks (k,0), for k = 11 .. 80781; the         *)
(* counters are the ones the generator holds after these 80772 calls of    *)
(* generateChunk (1 + 80771), of which the first assigned the identifiers  *)
(* from 1000000, 2000000 and 3000000 on.  Of the cache only chunk (0,0) is *)
(* kept here: no operation below reaches the key of another of these       *)
(* chunks.  The caller then goes on as in SpecWorld.                       *)
(***************************************************************************)
LateChunkGenerator ==
    [nextTreeId |-> 1690059, nextBushId |-> 2999995,
     nextFlowerId |-> 4271677, calls |-> << <<0, 0>> >>]

LateGameWorld ==
    Bind(getChunkAtPosition(NewGameWorld("world", MAX_PLAYERS_PER_WORLD),
                            Pos(100, 100)),
         LAMBDA r : [r.this EXCEPT !.chunkGenerator = LateChunkGenerator])

InitIds ==
    /\ placements = PlacementTable(WorldCoords)
    /\ objects = WorldObjects
    /\ worlds = <<LateGameWorld>>
    /\ generators = <<>>
    /\ gameWorlds = EmptyMap
    /\ conns = <<>>
    /\ timers = <<>>
    /\ now = 0
    /\ nextUuid = 0
    /\ emptySince = <<0>>
    /\ last = NoObs

SpecIds == InitIds /\ [][NextWorld]_vars

\* the identifiers of the entities of a chunk
TreeIds(chunk) == {chunk.trees[i].id : i \in 1..Len(chunk.trees)}
BushIds(chunk) == {chunk.bushes[i].id : i \in 1..Len(chunk.bushes)}
FlowerIds(chunk) == {chunk.flowers[i].id : i \in 1..Len(chunk.flowers)}
EntityIds(chunk) == TreeIds(chunk) \cup BushIds(chunk) \cup FlowerIds(chunk)

\* C12: no two entities in the cached chunks of a world share an
\* identifier, neither two of a category nor two of different categories,
\* neither in one chunk nor in two.
C12_IdentifiersAreUnique ==
    \A w \in DOMAIN worlds :
        LET cache == worlds[w].loadedChunks
        IN  /\ \A k \in DOMAIN cache :
                   Cardinality(EntityIds(cache[k]))
                       = Len(cache[k].trees) + Len(cache[k].bushes)
                           + Len(cache[k].flowers)
            /\ \A k1, k2 \in DOMAIN cache :
                   k1 # k2 => EntityIds(cache[k1]) \cap EntityIds(cache[k2]) = {}

(***************************************************************************)
(* Spec: the server of index.ts.  Connections are made, and each live      *)
(* connection delivers player:join, player:move and disconnect events in   *)
(* any order; the timers set by the disconnect handler expire; the clock   *)
(* advances.  Each handler runs to completion (one action each).           *)
(***************************************************************************)
\* connections made, and connections open at a time
MaxConns == 3
MaxOpen == 2
\* uuidv4() values handed out
MaxUuid == 3
\* the clock advances in steps of TickMs up to MaxTime
TickMs == 30000
MaxTime == 60000
\* the worldId arguments of player:join
WorldIds == {"a"}
\* values of getSpawnPosition (worldWidth / 2 + Math.random() * 200 - 100)
SpawnPositions == { Pos(2490, 2510) }
\* the data arguments of player:move: a step of 20 to the right of the spawn
\* position (into the next chunk column), a step that is too long from
\* either position, and a direction that validatePlayerMovement rejects
MoveInputs ==
    { [position |-> Pos(2510, 2510), direction |-> "right", isMoving |-> TRUE],
      [position |-> Pos(2531, 2510), direction |-> "right", isMoving |-> TRUE],
      [position |-> Pos(2510, 2510), direction |-> "north", isMoving |-> TRUE] }

\* currentPlayer = null, currentWorldId = null
NoPlayer == 0
NoWorldId == "null"
\* emptySince of a world that has players
Occupied == -1
\* a Player object that nothing refers to any more (its connection has
\* disconnected and no world holds it)
Unreachable(id) == NewPlayer(id, Pos(0, 0), 0)

\* validation/… validatePlayerMovement(data); the inputs modelled have a
\* position of two numbers and a boolean isMoving
validatePlayerMovement(data) ==
    /\ data.position.x \in Int
    /\ data.position.y \in Int
    /\ data.direction \in {"up", "down", "left", "right"}
    /\ data.isMoving \in BOOLEAN

\* index.ts getOrCreateWorld(worldId): the registry and the heap afterwards,
\* and the reference returned
getOrCreateWorld(worldId) ==
    IF ~MapHas(gameWorlds, worldId)
    THEN [worlds |-> Append(worlds, NewGameWorld(worldId, MAX_PLAYERS_PER_WORLD)),
          gameWorlds |-> MapSet(gameWorlds, worldId, Len(worlds) + 1),
          ref |-> Len(worlds) + 1, created |-> TRUE]
    ELSE [worlds |-> worlds, gameWorlds |-> gameWorlds,
          ref |-> gameWorlds[worldId], created |-> FALSE]

Init ==
    /\ placements = PlacementTable(ServerCoords)
    /\ objects = <<>>
    /\ worlds = <<>>
    /\ generators = <<>>
    /\ gameWorlds = EmptyMap
    /\ conns = <<>>
    /\ timers = <<>>
    /\ now = 0
    /\ nextUuid = 0
    /\ emptySince = <<>>
    /\ last = NoObs

\* the keys of the chunks of a world:chunks event
chunkKeys(chunks) ==
    {ChunkKeyOf(chunks[i].x, chunks[i].y) : i \in 1..Len(chunks)}

\* io.on('connection'): a new socket with its closure variables.  `joined`
\* and `delivered` are history fields: the ids of the players created by
\* the join requests of this connection, and the keys of the chunks sent on
\* the socket (world:chunks) since its current player joined (none once
\* the socket is closed).
Connection ==
    /\ Len(conns) < MaxConns
    /\ Cardinality({c \in DOMAIN conns : conns[c].connected}) < MaxOpen
    /\ conns' = Append(conns, [connected |-> TRUE, currentPlayer |-> NoPlayer,
                               currentWorldId |-> NoWorldId, joined |-> {},
                               delivered |-> {}])
    /\ last' = [NoObs EXCEPT !.op = "connection", !.conn = Len(conns) + 1]
    /\ UNCHANGED << placements, objects, worlds, generators, gameWorlds,
                    timers, now, nextUuid, emptySince >>

\* socket.on('player:join')
PlayerJoin(c, worldId, spawn) ==
    /\ conns[c].connected
    /\ \E g \in {getOrCreateWorld(worldId)} :
       LET gameWorld == g.worlds[g.ref]
           since == IF g.created THEN Append(emptySince, now) ELSE emptySince
       IN  IF isFull(gameWorld)
           THEN /\ worlds' = g.worlds
                /\ gameWorlds' = g.gameWorlds
                /\ emptySince' = since
                /\ conns' = [conns EXCEPT ![c].currentWorldId = worldId]
                /\ last' = [NoObs EXCEPT !.op = "player:join", !.conn = c,
                                         !.world = g.ref, !.emitted = "error"]
                /\ UNCHANGED << objects, nextUuid >>
           ELSE /\ nextUuid < MaxUuid
                /\ \E player \in {NewPlayer(nextUuid + 1, spawn, now)} :
                   \E added \in {addPlayer(gameWorld, player.id, player)} :
                   \E r \in {getChunksNearPosition(added, player.position,
                                                   DefaultDistance)} :
                   LET playerId == player.id
                   IN  /\ nextUuid' = playerId
                       /\ objects' = Append(objects, player)
                       /\ worlds' = [g.worlds EXCEPT ![g.ref] = r.this]
                       /\ gameWorlds' = g.gameWorlds
                       /\ emptySince' = [since EXCEPT ![g.ref] = Occupied]
                       /\ conns' = [conns EXCEPT
                                       ![c].currentWorldId = worldId,
                                       ![c].currentPlayer = playerId,
                                       ![c].joined = @ \cup {playerId},
                                       ![c].delivered = chunkKeys(r.chunks)]
                       /\ last' = [NoObs EXCEPT
                                       !.op = "player:join", !.conn = c,
                                       !.world = g.ref, !.id = playerId,
                                       !.ref = playerId,
                                       !.position = player.position,
                                       !.distance = DefaultDistance,
                                       !.ret = r.chunks,
                                       !.emitted = "player:joined"]
    /\ UNCHANGED << placements, generators, timers, now >>

\* Mutant of movementTooLarge: no movement is too large.
movementTooLarge_Never(position, lastPosition) == FALSE

\* movementDistance > MAX_MOVEMENT_PER_UPDATE, where movementDistance is the
\* Euclidean distance of position and lastPosition (both sides squared)
movementTooLarge(position, lastPosition) ==
    LET dx == position.x - lastPosition.x
        dy == position.y - lastPosition.y
    IN  dx * dx + dy * dy
            > MAX_MOVEMENT_PER_UPDATE * MAX_MOVEMENT_PER_UPDATE

\* socket.on('player:move')
PlayerMove(c, data) ==
    /\ conns[c].connected
    /\ LET ref == conns[c].currentPlayer
           currentWorldId == conns[c].currentWorldId
           \* the handler returns early: it logs and emits nothing
           early == [NoObs EXCEPT !.op = "player:move"]
           obs == [early EXCEPT !.conn = c, !.ref = ref,
                                !.position = data.position]
       IN  IF ref = NoPlayer \/ currentWorldId = NoWorldId
           THEN /\ last' = early
                /\ UNCHANGED << objects, worlds, conns >>
           ELSE IF ~validatePlayerMovement(data)
           THEN /\ last' = early
                /\ UNCHANGED << objects, worlds, conns >>
           ELSE LET lastPosition == objects[ref].position
                    moved == [objects[ref] EXCEPT
                                 !.position = data.position,
                                 !.direction = data.direction,
                                 !.isMoving = data.isMoving,
                                 !.lastUpdate = now]
                IN  IF movementTooLarge(data.position, lastPosition)
                    THEN /\ last' = early
                         /\ UNCHANGED << objects, worlds, conns >>
                    ELSE IF ~MapHas(gameWorlds, currentWorldId)
                    THEN \* gameWorld is undefined: updatePlayer throws,
                         \* after the Player object has been written
                         /\ objects' = [objects EXCEPT ![ref] = moved]
                         /\ last' = [obs EXCEPT !.id = moved.id,
                                                !.emitted = "exception"]
                         /\ UNCHANGED << worlds, conns >>
                    ELSE \E w \in {gameWorlds[currentWorldId]} :
                         \E updated \in {updatePlayer(worlds[w], ref, moved)} :
                         \E r \in {getNewChunksForPlayer(updated, moved)} :
                             /\ objects' = [objects EXCEPT ![ref] = moved]
                             /\ worlds' = [worlds EXCEPT ![w] = r.this]
                             /\ conns' = [conns EXCEPT ![c].delivered =
                                             @ \cup chunkKeys(r.chunks)]
                             /\ last' = [obs EXCEPT
                                            !.world = w, !.id = moved.id,
                                            !.distance = DefaultDistance,
                                            !.hadPrev =
                                                MapHas(worlds[w].playerChunks,
                                                       moved.id),
                                            !.prev = PrevOf(worlds[w], moved.id),
                                            !.ret = r.chunks,
                                            !.emitted =
                                                IF Len(r.chunks) > 0
                                                THEN "world:chunks"
                                                ELSE "player:move"]
    /\ UNCHANGED << placements, generators, gameWorlds, timers, now,
                    nextUuid, emptySince >>

\* socket.on('disconnect'); the socket delivers nothing afterwards
Disconnect(c) ==
    /\ conns[c].connected
    /\ conns' = [conns EXCEPT ![c].connected = FALSE, ![c].delivered = {}]
    /\ LET ref == conns[c].currentPlayer
           currentWorldId == conns[c].currentWorldId
           obs == [NoObs EXCEPT !.op = "disconnect", !.conn = c, !.ref = ref]
       IN  IF /\ ref # NoPlayer
              /\ currentWorldId # NoWorldId
              /\ MapHas(gameWorlds, currentWorldId)
           THEN LET w == gameWorlds[currentWorldId]
                    removed == removePlayer(worlds[w], objects[ref].id)
                    held == \E v \in DOMAIN worlds :
                                \E id \in DOMAIN worlds[v].players :
                                    /\ worlds[v].players[id] = ref
                                    /\ ~(v = w /\ id = objects[ref].id)
                IN  /\ worlds' = [worlds EXCEPT ![w] = removed]
                    /\ objects' = IF held
                                  THEN objects
                                  ELSE [objects EXCEPT
                                           ![ref] = Unreachable(objects[ref].id)]
                    /\ timers' =
                           IF getPlayerCount(removed) = 0
                           THEN Append(timers, [world |-> w, conn |-> c,
                                                due |-> now + GracePeriod])
                           ELSE timers
                    /\ emptySince' =
                           IF /\ getPlayerCount(removed) = 0
                              /\ getPlayerCount(worlds[w]) > 0
                           THEN [emptySince EXCEPT ![w] = now]
                           ELSE emptySince
                    /\ last' = [obs EXCEPT
                                   !.world = w, !.id = objects[ref].id,
                                   !.hadPrev = MapHas(worlds[w].players,
                                                      objects[ref].id),
                                   !.emitted = "player:left"]
           ELSE /\ last' = obs
                /\ UNCHANGED << objects, worlds, timers, emptySince >>
    /\ UNCHANGED << placements, generators, gameWorlds, now, nextUuid >>

\* Mutant of Timeout: the callback deletes nothing.
Timeout_NoDelete ==
    /\ timers # <<>>
    /\ now >= timers[1].due
    /\ last' = [NoObs EXCEPT !.op = "timeout", !.conn = timers[1].conn,
                             !.world = timers[1].world]
    /\ timers' = Tail(timers)
    /\ UNCHANGED << placements, objects, worlds, generators, gameWorlds,
                    conns, now, nextUuid, emptySince >>

\* the callback of setTimeout(..., 60000) in the disconnect handler: it
\* reads the count of the GameWorld object it captured and deletes the
\* registry entry of the connection's currentWorldId.  All timers have the
\* same delay, so they expire in the order they were set.
Timeout ==
    /\ timers # <<>>
    /\ now >= timers[1].due
    /\ LET gameWorld == worlds[timers[1].world]
           currentWorldId == conns[timers[1].conn].currentWorldId
           obs == [NoObs EXCEPT !.op = "timeout", !.conn = timers[1].conn,
                                !.world = timers[1].world]
       IN  IF getPlayerCount(gameWorld) = 0
           THEN /\ gameWorlds' = MapDelete(gameWorlds, currentWorldId)
                /\ last' = [obs EXCEPT
                               !.removed =
                                   IF MapHas(gameWorlds, currentWorldId)
                                   THEN gameWorlds[currentWorldId]
                                   ELSE 0,
                               !.emitted = "deleted"]
           ELSE /\ last' = obs
                /\ UNCHANGED gameWorlds
    /\ timers' = Tail(timers)
    /\ UNCHANGED << placements, objects, worlds, generators, conns, now,
                    nextUuid, emptySince >>

\* the clock advances; a timer expires before the clock passes its due time
\* by a whole tick
Tick ==
    /\ now + TickMs <= MaxTime
    /\ timers # <<>> => now < timers[1].due
    /\ now' = now + TickMs
    /\ last' = [NoObs EXCEPT !.op = "tick"]
    /\ UNCHANGED << placements, objects, worlds, generators, gameWorlds,
                    conns, timers, nextUuid, emptySince >>

Next ==
    \/ Connection
    \/ \E c \in DOMAIN conns, worldId \in WorldIds, spawn \in SpawnPositions :
           PlayerJoin(c, worldId, spawn)
    \/ \E c \in DOMAIN conns, data \in MoveInputs : PlayerMove(c, data)
    \/ \E c \in DOMAIN conns : Disconnect(c)
    \/ Timeout
    \/ Tick

Spec == Init /\ [][Next]_vars

(***************************************************************************)
(* Claims about the server (Spec)                                          *)
(***************************************************************************)
\* a timer expiry has just removed the GameWorld last.removed from gameWorlds
WorldRemoved == last.op = "timeout" /\ last.removed # 0

\* C3: whenever a world is removed from the registry, its player count has
\* been zero for the whole grace period (60 s) before the removal.
C3_RemovedOnlyAfterFullGrace ==
    WorldRemoved =>
        /\ getPlayerCount(worlds[last.removed]) = 0
        /\ emptySince[last.removed] # Occupied
        /\ now - emptySince[last.removed] >= GracePeriod

\* C4: a timer expiry never removes from the registry a world that has a
\* registered player at that moment.
C4_TimerNeverRemovesOccupiedWorld ==
    WorldRemoved => getPlayerCount(worlds[last.removed]) = 0

\* C5: every world's player count is at most its maximum, and isFull() is
\* true exactly when the count equals the maximum.
C5_CountAtMostMaximum ==
    \A w \in DOMAIN worlds :
        /\ getPlayerCount(worlds[w]) <= worlds[w].maxPlayers
        /\ isFull(worlds[w]) <=> getPlayerCount(worlds[w]) = worlds[w].maxPlayers

\* C5 witness: a join was refused by a world that holds its maximum of
\* players, one of whom has moved.
C5_Witness ==
    /\ last.op = "player:join"
    /\ last.emitted = "error"
    /\ getPlayerCount(worlds[last.world]) = worlds[last.world].maxPlayers
    /\ \E id \in DOMAIN worlds[last.world].players :
           objects[worlds[last.world].players[id]].position = Pos(2510, 2510)

\* the world a player:join request of the step names, when it is registered
\* and full as the request arrives
JoinOfFullWorld ==
    /\ last'.op = "player:join"
    /\ LET worldId == conns'[last'.conn].currentWorldId
       IN  /\ MapHas(gameWorlds, worldId)
           /\ getPlayerCount(worlds[gameWorlds[worldId]])
                  >= worlds[gameWorlds[worldId]].maxPlayers

\* C16: a join request to a full world is answered by one 'error' event and
\* registers nothing: every world (its registry, chunk sets and chunk
\* cache) and the world registry are as before, no Player object is
\* created and the connection's player is as before.
C16_FullWorldRefusesJoin ==
    [][ JoinOfFullWorld
        => /\ last'.emitted = "error"
           /\ worlds' = worlds
           /\ gameWorlds' = gameWorlds
           /\ objects' = objects
           /\ nextUuid' = nextUuid
           /\ conns'[last'.conn].currentPlayer
                  = conns[last'.conn].currentPlayer ]_vars

\* C16 witness: a connection without a player was refused by a world that
\* holds its maximum of players.
C16_Witness ==
    /\ last.op = "player:join"
    /\ last.emitted = "error"
    /\ conns[last.conn].currentPlayer = NoPlayer
    /\ conns[last.conn].currentWorldId # NoWorldId
    /\ getPlayerCount(worlds[last.world]) = MAX_PLAYERS_PER_WORLD

\* a player:move step that called updatePlayer and getNewChunksForPlayer
MoveReachedCore ==
    /\ last'.op = "player:move"
    /\ last'.emitted \in {"world:chunks", "player:move"}

\* the square of the distance of two positions
DistanceSquared(p, q) ==
    (p.x - q.x) * (p.x - q.x) + (p.y - q.y) * (p.y - q.y)

\* connection c holds a player and a world id, and `data` is a valid
\* movement to a position more than 20 away from that player's position
ExceedsThreshold(c, data) ==
    /\ conns[c].currentPlayer # NoPlayer
    /\ conns[c].currentWorldId # NoWorldId
    /\ validatePlayerMovement(data)
    /\ DistanceSquared(data.position,
                       objects[conns[c].currentPlayer].position) > 20 * 20

\* C17: the position of a movement that is passed to updatePlayer and
\* getNewChunksForPlayer is at most 20 away from the position the player
\* had before, and it is the position of the record passed; a movement of
\* more than 20 changes no Player object and no world (no record, no chunk
\* set, no chunk cache).
C17_OnlyShortMovesReachTheCore ==
    [][ /\ MoveReachedCore
            => /\ DistanceSquared(last'.position,
                                  objects[last'.ref].position) <= 20 * 20
               /\ objects'[last'.ref].position = last'.position
        /\ \A c \in DOMAIN conns : \A data \in MoveInputs :
               (ExceedsThreshold(c, data) /\ PlayerMove(c, data))
                   => (objects' = objects /\ worlds' = worlds) ]_vars

\* C17 witness: a movement of exactly 20 reached the core, and the same
\* connection can now send a movement of 21.
C17_Witness ==
    /\ last.op = "player:move"
    /\ last.emitted = "world:chunks"
    /\ last.position = Pos(2510, 2510)
    /\ objects[last.ref].position = Pos(2510, 2510)
    /\ \E data \in MoveInputs :
           /\ ExceedsThreshold(last.conn, data)
           /\ DistanceSquared(data.position, last.position) = 21 * 21

\* C18: once a connection's disconnect event has been handled, none of the
\* players created by a join request on that connection is registered in a
\* world, however many join requests the connection made.
C18_DisconnectRemovesEveryPlayerOfConnection ==
    \A c \in DOMAIN conns :
        ~conns[c].connected =>
            \A worldId \in DOMAIN gameWorlds :
                DOMAIN worlds[gameWorlds[worldId]].players
                    \cap conns[c].joined = {}

\* connection c is open and its player is tracked by the world registered
\* under the connection's world id
Tracked(c) ==
    /\ conns[c].connected
    /\ conns[c].currentPlayer # NoPlayer
    /\ MapHas(gameWorlds, conns[c].currentWorldId)
    /\ LET world == worlds[gameWorlds[conns[c].currentWorldId]]
           id == objects[conns[c].currentPlayer].id
       IN  /\ MapHas(world.players, id)
           /\ world.players[id] = conns[c].currentPlayer
           /\ MapHas(world.playerChunks, id)

\* the chunk set stored for the player of connection c
VisibilitySet(c) ==
    worlds[gameWorlds[conns[c].currentWorldId]]
        .playerChunks[objects[conns[c].currentPlayer].id]

TwoWorldIds == {"a", "b"}

NextTwoWorlds ==
    \/ Connection
    \/ \E c \in DOMAIN conns, worldId \in TwoWorldIds, spawn \in SpawnPositions :
           PlayerJoin(c, worldId, spawn)
    \/ \E c \in DOMAIN conns, data \in MoveInputs : PlayerMove(c, data)

SpecTwoWorlds == Init /\ [][NextTwoWorlds]_vars

\* the record a world's registry holds for an id (none: the empty sequence)
StoredRecord(heap, players, id) ==
    IF MapHas(players, id) THEN <<heap[players[id]]>> ELSE <<>>

\* the step made world w execute addPlayer, updatePlayer or removePlayer
\* for id
ExecutedFor(w, id) ==
    /\ last'.world = w
    /\ last'.id = id
    /\ \/ last'.op = "player:join" /\ last'.emitted = "player:joined"
       \/ MoveReachedCore
       \/ last'.op = "disconnect" /\ last'.emitted = "player:left"

\* C20: the record a registered world holds for an id changes only in a
\* step in which that world executes addPlayer, updatePlayer or
\* removePlayer for that id; in particular a move event changes a record
\* only of the world whose updatePlayer it calls.
C20_RecordChangesOnlyThroughItsWorld ==
    [][ \A worldId \in DOMAIN gameWorlds : \A id \in 1..MaxUuid :
            LET w == gameWorlds[worldId]
            IN  StoredRecord(objects', worlds'[w].players, id)
                    # StoredRecord(objects, worlds[w].players, id)
                => ExecutedFor(w, id) ]_vars

\* C21: a player:move event of player p handled with world W (the chunk
\* delta of p computed by W, or the call failing) leaves every Player
\* object other than p's as it was, leaves in W the registry, the chunk
\* sets of the other ids and every chunk already cached as they were, and
\* leaves every other world as it was; when the call fails no world
\* changes at all.
C21_DeltaTouchesOnlyItsPlayerAndWorld ==
    [][ last'.op = "player:move"
        => /\ \A r \in DOMAIN objects :
                  r # last'.ref => objects'[r] = objects[r]
           /\ DOMAIN worlds' = DOMAIN worlds
           /\ \A v \in DOMAIN worlds :
                  IF MoveReachedCore /\ v = last'.world
                  THEN /\ worlds'[v].players = worlds[v].players
                       /\ DOMAIN worlds'[v].playerChunks
                              = DOMAIN worlds[v].playerChunks \cup {last'.id}
                       /\ \A id \in DOMAIN worlds[v].playerChunks \ {last'.id} :
                              worlds'[v].playerChunks[id]
                                  = worlds[v].playerChunks[id]
                       /\ \A key \in DOMAIN worlds[v].loadedChunks :
                              /\ MapHas(worlds'[v].loadedChunks, key)
                              /\ worlds'[v].loadedChunks[key]
                                     = worlds[v].loadedChunks[key]
                  ELSE worlds'[v] = worlds[v] ]_vars

\* C21 witness: the call failed (the world id of the connection is not in
\* the registry) while a world with a tracked player exists.
C21_Witness ==
    /\ last.op = "player:move"
    /\ last.emitted = "exception"
    /\ ~MapHas(gameWorlds, conns[last.conn].currentWorldId)
    /\ \E v \in DOMAIN worlds : DOMAIN worlds[v].playerChunks # {}

(***************************************************************************)
(* SpecLive: the server with its timers running.  Clients connect, join    *)
(* and disconnect; the clock advances while a timer is pending, up to the  *)
(* time the oldest timer is due, and a timer that is due expires: Node.js  *)
(* runs the callback of every timer once its delay has passed (weak        *)
(* fairness of Timeout and of the clock).                                  *)
(***************************************************************************)
TickLive ==
    /\ timers # <<>>
    /\ now < timers[1].due
    /\ now' = now + TickMs
    /\ last' = [NoObs EXCEPT !.op = "tick"]
    /\ UNCHANGED << placements, objects, worlds, generators, gameWorlds,
                    conns, timers, nextUuid, emptySince >>

NextLive ==
    \/ Connection
    \/ \E c \in DOMAIN conns, worldId \in WorldIds, spawn \in SpawnPositions :
           PlayerJoin(c, worldId, spawn)
    \/ \E c \in DOMAIN conns : Disconnect(c)
    \/ Timeout
    \/ TickLive

SpecLive ==
    Init /\ [][NextLive]_vars /\ WF_vars(Timeout) /\ WF_vars(TickLive)

\* world w is in the registry
Registered(w) == \E worldId \in DOMAIN gameWorlds : gameWorlds[worldId] = w

\* the disconnect just handled removed the last player of world w
EmptiedByDisconnect(w) ==
    /\ last.op = "disconnect"
    /\ last.emitted = "player:left"
    /\ last.world = w
    /\ last.hadPrev
    /\ getPlayerCount(worlds[w]) = 0
    /\ Registered(w)

\* a player has joined world w
JoinedAgain(w) == w \in DOMAIN worlds /\ getPlayerCount(worlds[w]) > 0

\* C22: when a disconnect has brought the player count of a world to zero,
\* then eventually the world is out of the registry, unless a player joins
\* it.
C22_EmptyWorldIsEventuallyRemoved ==
    \A w \in 1..MaxUuid :
        EmptiedByDisconnect(w) ~> (~Registered(w) \/ JoinedAgain(w))

\* C22 witness: the timer of a world expired and removed that world, which
\* a disconnect had left without players a grace period before.
C22_Witness ==
    /\ last.op = "timeout"
    /\ last.removed # 0
    /\ last.removed = last.world
    /\ ~Registered(last.world)
    /\ emptySince[last.world] # Occupied
    /\ now - emptySince[last.world] >= GracePeriod

(***************************************************************************)
(* SpecSequence: one closure returned by createSeededRandom(seed), called  *)
(* again and again.  The heap holds the closure: its captured variable     *)
(* `state`, and the number of calls made (a history field).  The seeds are *)
(* integers around zero, around the modulus and around the chunk seeds     *)
(* cx * 10000 + cy (+ 1, + 2) of the chunk columns -2, -1, 1 and 2.        *)
(***************************************************************************)
MaxRandomCalls == 4

SequenceSeeds ==
    (-8 .. 8) \cup (233278 .. 233282) \cup (-233282 .. -233278)
        \cup (-20001 .. -19998) \cup (-10001 .. -9998)
        \cup (9999 .. 10002) \cup (19999 .. 20002)

InitSequence ==
    /\ placements = PlacementTable({})
    /\ \E seed \in SequenceSeeds :
           objects = << [state |-> createSeededRandom(seed), calls |-> 0] >>
    /\ worlds = <<>>
    /\ generators = <<>>
    /\ gameWorlds = EmptyMap
    /\ conns = <<>>
    /\ timers = <<>>
    /\ now = 0
    /\ nextUuid = 0
    /\ emptySince = <<>>
    /\ last = NoObs

\* one call of the closure: `state` afterwards, and the numerator of the
\* value returned (state / 233280)
CallRandom ==
    /\ objects[1].calls < MaxRandomCalls
    /\ \E next \in {random(objects[1].state)} :
           /\ objects' = << [state |-> next, calls |-> objects[1].calls + 1] >>
           /\ last' = [NoObs EXCEPT !.op = "random", !.ret = <<next>>]
    /\ UNCHANGED << placements, worlds, generators, gameWorlds, conns, timers,
                    now, nextUuid, emptySince >>

NextSequence == CallRandom

SpecSequence == InitSequence /\ [][NextSequence]_vars

\* C23: whatever the integer seed, after each call the state is in
\* 0 .. 233279, so that the value returned, state / 233280, is in [0, 1).
C23_SequenceStaysInUnitInterval ==
    last.op = "random" =>
        /\ objects[1].state \in 0 .. (233280 - 1)
        /\ last.ret[1] >= 0
        /\ last.ret[1] < 233280

(***************************************************************************)
(* SpecSeeds: the seeds generateChunk computes for two chunk coordinates.  *)
(* The columns are -1, 0 and 1; the rows are those around 0, around        *)
(* +-5000 and around +-10000.                                              *)
(***************************************************************************)
SeedRows ==
    {-10000, -9999, -5001, -5000, -4999, -1, 0, 1, 4999, 5000, 5001, 9999,
     10000}

SeedCoords == (-1 .. 1) \X SeedRows

InitSeeds ==
    /\ placements = PlacementTable({})
    /\ objects = <<>>
    /\ worlds = <<>>
    /\ generators = <<>>
    /\ gameWorlds = EmptyMap
    /\ conns = <<>>
    /\ timers = <<>>
    /\ now = 0
    /\ nextUuid = 0
    /\ emptySince = <<>>
    /\ last = NoObs

\* the first statement of generateChunk, for coordinate c1 and for c2
ComputeSeeds(c1, c2) ==
    /\ last' = [NoObs EXCEPT !.op = "chunkSeed", !.keys = <<c1, c2>>,
                             !.ret = << chunkSeedOf(c1[1], c1[2]),
                                        chunkSeedOf(c2[1], c2[2]) >>]
    /\ UNCHANGED << placements, objects, worlds, generators, gameWorlds,
                    conns, timers, now, nextUuid, emptySince >>

NextSeeds == \E c1 \in SeedCoords, c2 \in SeedCoords : ComputeSeeds(c1, c2)

SpecSeeds == InitSeeds /\ [][NextSeeds]_vars

\* two distinct coordinates whose rows cy have |cy| < bound
DistinctWithRowsBelow(bound) ==
    /\ last.op = "chunkSeed"
    /\ last.keys[1] # last.keys[2]
    /\ Abs(last.keys[1][2]) < bound
    /\ Abs(last.keys[2][2]) < bound

\* C24 as stated: two distinct chunk coordinates with |cy| < 10000 have
\* distinct seeds.
C24_DistinctSeedsBelow10000 ==
    DistinctWithRowsBelow(10000) => last.ret[1] # last.ret[2]

\* C24 amended: two distinct chunk coordinates with |cy| < 5000 have
\* distinct seeds.
C24_DistinctSeedsBelow5000 ==
    DistinctWithRowsBelow(5000) => last.ret[1] # last.ret[2]

\* C24 witness: rows 4999 and -4999 of neighbouring columns, whose seeds
\* are 2 apart.
C24_Witness ==
    /\ DistinctWithRowsBelow(5000)
    /\ last.keys[1][2] = 4999
    /\ last.keys[2][2] = -4999
    /\ last.keys[2][1] = last.keys[1][1] + 1
    /\ last.ret[2] - last.ret[1] = 2

\* the attempts made for each entity of a placement loop are within 1..50,
\* and 50 for each entity omitted; every entity of the loop's count was
\* placed or omitted
WithinRetryBudget(loop, count) ==
    /\ \A k \in 1..Len(loop.placed) : loop.placed[k].attempts \in 1..50
    /\ \A k \in 1..Len(loop.gaveUp) : loop.gaveUp[k] = 50
    /\ Len(loop.gaveUp) = loop.omitted
    /\ Len(loop.placed) + loop.omitted = count

\* ids first, first + 1, ... in the order of the sequence
ConsecutiveIds(elements, first) ==
    \A k \in 1..Len(elements) : elements[k].id = first + (k - 1)

\* C25: generateChunk returns a chunk for every coordinate.  Each tree and
\* bush was placed within 50 attempts or omitted after 50; the loops went
\* through their whole count of entities; the trees and the bushes of the
\* chunk are the entities placed, with consecutive identifiers from the
\* generator's counters, which advanced by the numbers of entities placed
\* (an omitted entity takes no identifier).
C25_PlacementGivesUpAfter50Attempts ==
    [][ last'.op = "generateChunk"
        => LET chunk == last'.ret[1]
               before == generators[last'.world]
               after == generators'[last'.world]
               loops == placements[<<chunk.x, chunk.y>>]
               seed == chunk.x * 10000 + chunk.y
           IN  /\ Len(last'.ret) = 1
               /\ chunk.isLoaded
               /\ WithinRetryBudget(loops.trees,
                                     5 + Lookup(SinTimes5Table, seed))
               /\ WithinRetryBudget(loops.bushes,
                                     8 + Lookup(CosTimes7Table, seed))
               /\ Len(chunk.trees) = Len(loops.trees.placed)
               /\ Len(chunk.bushes) = Len(loops.bushes.placed)
               /\ ConsecutiveIds(chunk.trees, before.nextTreeId)
               /\ ConsecutiveIds(chunk.bushes, before.nextBushId)
               /\ after.nextTreeId = before.nextTreeId + Len(chunk.trees)
               /\ after.nextBushId = before.nextBushId + Len(chunk.bushes)
      ]_vars

\* C25 witness: a chunk was generated in which a tree and a bush were
\* omitted and later ones were placed, by a generator that had generated a
\* chunk before.
C25_Witness ==
    /\ last.op = "generateChunk"
    /\ Len(generators[last.world].calls) = 2
    /\ LET loops == placements[<<last.position.x, last.position.y>>]
       IN  /\ loops.trees.omitted > 0
           /\ loops.bushes.omitted > 0
           /\ Len(last.ret[1].bushes) = Len(loops.bushes.placed)
           /\ last.ret[1].bushes[Len(loops.bushes.placed)].id
                  = generators[last.world].nextBushId - 1

\* the point of a flower is at distance >= size/2 from the centre of a tree
\* or bush (both sides doubled and squared)
OffTheElement(flower, element) ==
    (2 * flower.x - (2 * element.x + element.size))
        * (2 * flower.x - (2 * element.x + element.size))
    + (2 * flower.y - (2 * element.y + element.size))
        * (2 * flower.y - (2 * element.y + element.size))
        >= element.size * element.size

\* C26: in every generated chunk, the point of every flower is at distance
\* >= size/2 from the centre of every tree and of every bush of the chunk.
C26_FlowersKeepOffTreesAndBushes ==
    last.op = "generateChunk" =>
        LET chunk == last.ret[1]
            sized == chunk.trees \o chunk.bushes
        IN  \A f \in 1..Len(chunk.flowers) :
                \A e \in 1..Len(sized) :
                    OffTheElement(chunk.flowers[f], sized[e])

\* C26 witness: a generated chunk with trees, bushes and flowers, in which a
\* flower was omitted because its point lay on a tree or a bush, and in
\* which two flowers lie less than 10 apart (nothing keeps flowers from
\* each other).
C26_Witness ==
    /\ last.op = "generateChunk"
    /\ LET chunk == last.ret[1]
       IN  /\ Len(chunk.trees) > 0
           /\ Len(chunk.bushes) > 0
           /\ placements[<<chunk.x, chunk.y>>].flowers.omitted > 0
           /\ \E f, g \in 1..Len(chunk.flowers) :
                  /\ f < g
                  /\ (chunk.flowers[f].x - chunk.flowers[g].x)
                         * (chunk.flowers[f].x - chunk.flowers[g].x)
                     + (chunk.flowers[f].y - chunk.flowers[g].y)
                         * (chunk.flowers[f].y - chunk.flowers[g].y) < 100

\* C27: in every world, every chunk key of every stored chunk set (of a
\* registered player or not) has a chunk in the world's cache.
C27_VisibleChunksAreCached ==
    \A w \in DOMAIN worlds :
        \A id \in DOMAIN worlds[w].playerChunks :
            worlds[w].playerChunks[id] \subseteq DOMAIN worlds[w].loadedChunks

\* C27 witness: getNewChunksForPlayer has just returned chunks for a
\* registered player whose chunk set it replaced, in a world that tracks
\* two players with different chunk sets.
C27_Witness ==
    /\ last.op = "getNewChunksForPlayer"
    /\ Len(last.ret) > 0
    /\ last.hadPrev
    /\ MapHas(worlds[last.world].players, last.id)
    /\ worlds[last.world].playerChunks[last.id] # {}
    /\ \E other \in DOMAIN worlds[last.world].playerChunks :
           /\ other # last.id
           /\ worlds[last.world].playerChunks[other]
                  # worlds[last.world].playerChunks[last.id]

\* C28: after a join or a move event has been handled, every player
\* registered in a world of the registry has a stored chunk set, and it is
\* the chunk set of the position of the player's stored record.
C28_VisibilitySetFollowsStoredPosition ==
    last.op \in {"player:join", "player:move"} =>
        \A worldId \in DOMAIN gameWorlds :
            LET world == worlds[gameWorlds[worldId]]
            IN  \A id \in DOMAIN world.players :
                    /\ MapHas(world.playerChunks, id)
                    /\ world.playerChunks[id]
                           = ChunksNear(objects[world.players[id]].position)

\* C29: the current player of every open connection is registered in the
\* world that the registry holds under the connection's current world id.
C29_CurrentPlayerIsInCurrentWorld ==
    \A c \in DOMAIN conns :
        (conns[c].connected /\ conns[c].currentPlayer # NoPlayer) =>
            /\ MapHas(gameWorlds, conns[c].currentWorldId)
            /\ LET world == worlds[gameWorlds[conns[c].currentWorldId]]
                   id == objects[conns[c].currentPlayer].id
               IN  /\ MapHas(world.players, id)
                   /\ world.players[id] = conns[c].currentPlayer

\* C30: every chunk in the cache of every world has coordinates inside the
\* world: cx >= 0, cy >= 0, cx * chunkSize < worldWidth and
\* cy * chunkSize < worldHeight.
C30_CachedChunksAreInsideTheWorld ==
    \A w \in DOMAIN worlds :
        \A key \in DOMAIN worlds[w].loadedChunks :
            LET chunk == worlds[w].loadedChunks[key]
            IN  /\ chunk.x >= 0
                /\ chunk.y >= 0
                /\ chunk.x * chunkSize < worldWidth
                /\ chunk.y * chunkSize < worldHeight

=============================================================================
